---- MODULE Spec2Model ----
(***************************************************************************)
(* Package manager (anthropic/06-package-manager, stages 3 and 4) and the  *)
(* dependency version checker (openai/07-dependency-version-checker).      *)
(*                                                                         *)
(* Python strings are sequences of one-character strings, so that parsing  *)
(* (split on ".", int(), the constraint regular expression) is computed    *)
(* and not assumed.  None is the one-element sequence <<"None">>, which is *)
(* no Python string of the model (its element is not a single character).  *)
(***************************************************************************)
EXTENDS Integers, Sequences, FiniteSets, TLC

VARIABLES
    registry,           \* PackageManager._registry: name -> [versions, dependencies]
    packages,           \* PackageManager._packages: name -> installed version string
    resolved_versions,  \* PackageManager._resolved_versions
    ret,                \* what the last call returned (or raised)
    cmp,                \* inputs and results of the last compare_versions calls
    sat,                \* a version and a constraint, and what the matchers gave
    lock,               \* key order of _packages, and the last lockfile calls
    ledger,             \* the stage-2 PackageManager and what its last call gave
    threads             \* the calls that run concurrently, and where each of them is

vars == <<registry, packages, resolved_versions, ret, cmp, sat, lock, ledger, threads>>

None == <<"None">>

(***************************************************************************)
(* Characters and integers                                                 *)
(***************************************************************************)
DigitChars == {"0", "1", "2", "3", "4", "5", "6", "7", "8", "9"}

DigitVal(ch) ==
    CASE ch = "0" -> 0 [] ch = "1" -> 1 [] ch = "2" -> 2 [] ch = "3" -> 3
      [] ch = "4" -> 4 [] ch = "5" -> 5 [] ch = "6" -> 6 [] ch = "7" -> 7
      [] ch = "8" -> 8 [] ch = "9" -> 9

\* The characters of the model in ascending ord(ch) (ASCII) order
CharOrder == <<" ", ".", "0", "1", "2", "3", "4", "5", "6", "7", "8", "9", "<", "=", ">",
               "a", "b", "e", "g", "k", "o", "p", "r", "s", "t", "x", "~">>

\* Position of ch in CharOrder: it orders characters as ord(ch) does
Ord(ch) == CHOOSE i \in 1..Len(CharOrder) : CharOrder[i] = ch

\* s.strip(): s without its leading and trailing spaces
RECURSIVE Strip(_)
Strip(s) ==
    IF Len(s) = 0 THEN s
    ELSE IF s[1] = " " THEN Strip(Tail(s))
    ELSE IF s[Len(s)] = " " THEN Strip(SubSeq(s, 1, Len(s) - 1))
    ELSE s

\* int(s) succeeds: over the model's characters, exactly the non-empty digit
\* strings with spaces around them
IsInt(s) == Len(Strip(s)) > 0 /\ \A i \in 1..Len(Strip(s)) : Strip(s)[i] \in DigitChars

RECURSIVE DigitsValue(_)
DigitsValue(s) ==
    IF Len(s) = 0 THEN 0
    ELSE 10 * DigitsValue(SubSeq(s, 1, Len(s) - 1)) + DigitVal(s[Len(s)])

\* int(s) where it succeeds
IntOf(s) == DigitsValue(Strip(s))

\* s.split(sep) for a one-character separator
RECURSIVE Split(_, _)
Split(s, sep) ==
    IF \A i \in 1..Len(s) : s[i] # sep THEN <<s>>
    ELSE LET k == CHOOSE i \in 1..Len(s) :
                      s[i] = sep /\ \A j \in 1..(i - 1) : s[j] # sep
         IN <<SubSeq(s, 1, k - 1)>> \o Split(SubSeq(s, k + 1, Len(s)), sep)

StartsWith(s, p) == Len(s) >= Len(p) /\ SubSeq(s, 1, Len(p)) = p

(***************************************************************************)
(* Python comparison of str with str and of tuples (of int and str)        *)
(***************************************************************************)
\* -1, 0, 1 as a < b, a = b, a > b for two str
RECURSIVE StrCmp(_, _)
StrCmp(a, b) ==
    IF Len(a) = 0 /\ Len(b) = 0 THEN 0
    ELSE IF Len(a) = 0 THEN -1
    ELSE IF Len(b) = 0 THEN 1
    ELSE IF Ord(a[1]) < Ord(b[1]) THEN -1
    ELSE IF Ord(a[1]) > Ord(b[1]) THEN 1
    ELSE StrCmp(Tail(a), Tail(b))

\* One component of a version tuple: an int (int |-> TRUE, n) or a str (s).
IntPart(k) == [int |-> TRUE, n |-> k, s |-> <<>>]
StrPart(t) == [int |-> FALSE, n |-> 0, s |-> t]

TypeError == 2

\* Ordering of two tuples as Python's <, <=, >, >= decide it: -1, 0, 1, or
\* TypeError when the first differing components are an int and a str.
RECURSIVE TupleCmp(_, _)
TupleCmp(a, b) ==
    IF Len(a) = 0 /\ Len(b) = 0 THEN 0
    ELSE IF Len(a) = 0 THEN -1
    ELSE IF Len(b) = 0 THEN 1
    ELSE IF a[1] = b[1] THEN TupleCmp(Tail(a), Tail(b))
    ELSE IF a[1].int /\ b[1].int THEN (IF a[1].n < b[1].n THEN -1 ELSE 1)
    ELSE IF ~a[1].int /\ ~b[1].int THEN StrCmp(a[1].s, b[1].s)
    ELSE TypeError

(***************************************************************************)
(* The strings of the model's calls                                        *)
(***************************************************************************)
App == <<"a", "p", "p">>
Pkg1 == <<"p", "k", "g", "1">>
Pkg2 == <<"p", "k", "g", "2">>
Base == <<"b", "a", "s", "e">>

Names == {App, Pkg1, Pkg2, Base}

V100 == <<"1", ".", "0", ".", "0">>
V150 == <<"1", ".", "5", ".", "0">>
V200 == <<"2", ".", "0", ".", "0">>

EQ(v) == <<"=", "=">> \o v
GE(v) == <<">", "=">> \o v
LE(v) == <<"<", "=">> \o v

VersionStrings == {V100, V150, V200}

ConstraintStrings == {<<>>, GE(V100), GE(V200), LE(V150), EQ(V100), EQ(V200)}

(***************************************************************************)
(* PackageManager._version_tuple and _matches_constraint (stage 3 = 4)     *)
(***************************************************************************)
_version_tuple(version) ==
    LET parts == Split(version, ".")
    IN [i \in 1..Len(parts) |->
            IF IsInt(parts[i]) THEN IntPart(IntOf(parts[i])) ELSE StrPart(parts[i])]

\* The alternation (==|>=|<=|>|<|~=) in the order the pattern tries it
OpAlternation == << <<"=", "=">>, <<">", "=">>, <<"<", "=">>, <<">">>, <<"<">>, <<"~", "=">> >>

\* re.match(r'^(==|>=|<=|>|<|~=)?(.+)$', constraint): the first alternative that
\* is a prefix and leaves at least one character for (.+); otherwise the group is
\* skipped and (.+) takes the whole text; the empty text does not match.
\* group(1) or "==" is op, group(2) is target.
ConstraintMatch(constraint, alternation) ==
    LET hits == {i \in 1..Len(alternation) :
                    /\ StartsWith(constraint, alternation[i])
                    /\ Len(constraint) > Len(alternation[i])}
    IN IF Len(constraint) = 0 THEN [matched |-> FALSE, op |-> <<>>, target |-> <<>>]
       ELSE IF hits = {} THEN [matched |-> TRUE, op |-> <<"=", "=">>, target |-> constraint]
       ELSE LET i == CHOOSE h \in hits : \A g \in hits : h <= g
            IN [matched |-> TRUE, op |-> alternation[i],
                target |-> SubSeq(constraint, Len(alternation[i]) + 1, Len(constraint))]

\* Mutant of _matches_constraint: "~=" does not look at the leading component
MatchesCompatibleAsGE(version, constraint) ==
    LET m == ConstraintMatch(constraint, OpAlternation)
        v_tuple == _version_tuple(version)
        t_tuple == _version_tuple(m.target)
        c == TupleCmp(v_tuple, t_tuple)
        B(b) == IF b THEN "True" ELSE "False"
    IN IF ~m.matched THEN "False"
       ELSE IF m.op = <<"=", "=">> THEN B(v_tuple = t_tuple)
       ELSE IF c = TypeError THEN "TypeError"
       ELSE IF m.op = <<">", "=">> THEN B(c >= 0)
       ELSE IF m.op = <<"<", "=">> THEN B(c <= 0)
       ELSE IF m.op = <<">">> THEN B(c > 0)
       ELSE IF m.op = <<"<">> THEN B(c < 0)
       ELSE IF m.op = <<"~", "=">> THEN B(c >= 0)
       ELSE "False"

\* What _matches_constraint(version, constraint) does: "True", "False" or
\* "TypeError" (an ordering of an int with a str component).
_matches_constraint(version, constraint) ==
    LET m == ConstraintMatch(constraint, OpAlternation)
        v_tuple == _version_tuple(version)
        t_tuple == _version_tuple(m.target)
        c == TupleCmp(v_tuple, t_tuple)
        B(b) == IF b THEN "True" ELSE "False"
    IN IF ~m.matched THEN "False"
       ELSE IF m.op = <<"=", "=">> THEN B(v_tuple = t_tuple)
       ELSE IF c = TypeError THEN "TypeError"
       ELSE IF m.op = <<">", "=">> THEN B(c >= 0)
       ELSE IF m.op = <<"<", "=">> THEN B(c <= 0)
       ELSE IF m.op = <<">">> THEN B(c > 0)
       ELSE IF m.op = <<"<">> THEN B(c < 0)
       ELSE IF m.op = <<"~", "=">> THEN B(c >= 0 /\ v_tuple[1] = t_tuple[1])
       ELSE "False"

\* _matches_constraint on the strings of the model's calls, evaluated once
MatchTable ==
    [p \in VersionStrings \X ConstraintStrings |-> _matches_constraint(p[1], p[2])]

Matches(version, constraint) ==
    IF <<version, constraint>> \in DOMAIN MatchTable
    THEN MatchTable[<<version, constraint>>]
    ELSE _matches_constraint(version, constraint)

\* all(self._matches_constraint(version, c) for c in constraints), left to right,
\* stopping at the first False
RECURSIVE AllMatch(_, _)
AllMatch(version, constraints) ==
    IF Len(constraints) = 0 THEN "True"
    ELSE LET r == Matches(version, constraints[1])
         IN IF r = "True" THEN AllMatch(version, Tail(constraints)) ELSE r

(***************************************************************************)
(* Dependency version checker, stage 1: parse_version, compare_versions    *)
(***************************************************************************)
\* int(p) succeeds for every part
ValidVersion(version) == \A p \in {Split(version, ".")[i] : i \in 1..Len(Split(version, "."))} : IsInt(p)

parse_version(version) ==
    LET parts == Split(version, ".")
    IN [i \in 1..Len(parts) |-> IntOf(parts[i])]

Max(a, b) == IF a >= b THEN a ELSE b

\* t + (0,) * (max_len - len(t))
PadZeros(t, max_len) == [i \in 1..Max(max_len, Len(t)) |-> IF i <= Len(t) THEN t[i] ELSE 0]

\* Mutant of compare_versions: the tuples are compared without padding
compare_versions_unpadded(v1, v2) ==
    LET p1 == parse_version(v1)
        p2 == parse_version(v2)
        c == TupleCmp([i \in 1..Len(p1) |-> IntPart(p1[i])],
                      [i \in 1..Len(p2) |-> IntPart(p2[i])])
    IN IF c < 0 THEN -1 ELSE IF c > 0 THEN 1 ELSE 0

compare_versions(v1, v2) ==
    LET p1 == parse_version(v1)
        p2 == parse_version(v2)
        max_len == Max(Len(p1), Len(p2))
        t1 == PadZeros(p1, max_len)
        t2 == PadZeros(p2, max_len)
        c == TupleCmp([i \in 1..Len(t1) |-> IntPart(t1[i])],
                      [i \in 1..Len(t2) |-> IntPart(t2[i])])
    IN IF c < 0 THEN -1 ELSE IF c > 0 THEN 1 ELSE 0

\* The alternation (>=|<=|>|<|=|==) of stage 1 in the order the pattern tries it
CheckerAlternation ==
    << <<">", "=">>, <<"<", "=">>, <<">">>, <<"<">>, <<"=">>, <<"=", "=">> >>

\* ... and (>=|<=|>|<|=|==|~=|\^) of stage 2
CheckerAlternation2 == CheckerAlternation \o << <<"~", "=">>, <<"^">> >>

Bool(b) == IF b THEN "True" ELSE "False"

\* cmp = compare_versions(version, target) and the operator's test on it, or the
\* ValueError that int() raises in parse_version
CompareWith(version, target, op) ==
    IF ~ValidVersion(version) \/ ~ValidVersion(target) THEN "ValueError"
    ELSE IF op \in {<<"=">>, <<"=", "=">>} THEN Bool(compare_versions(version, target) = 0)
    ELSE IF op = <<">", "=">> THEN Bool(compare_versions(version, target) >= 0)
    ELSE IF op = <<"<", "=">> THEN Bool(compare_versions(version, target) <= 0)
    ELSE IF op = <<">">> THEN Bool(compare_versions(version, target) > 0)
    ELSE IF op = <<"<">> THEN Bool(compare_versions(version, target) < 0)
    ELSE "False"

\* satisfies(version, constraint) of stage 1: "True", "False" or "ValueError"
SatisfiesMatched(version, m) ==
    IF ~m.matched THEN "False" ELSE CompareWith(version, Strip(m.target), m.op)

satisfies(version, constraint) ==
    SatisfiesMatched(version, ConstraintMatch(Strip(constraint), CheckerAlternation))

\* v >= t and v[0] == t[0] on the tuples of parse_version, not padded
CompatibleRelease(v, t) ==
    /\ TupleCmp([i \in 1..Len(v) |-> IntPart(v[i])],
                [i \in 1..Len(t) |-> IntPart(t[i])]) >= 0
    /\ v[1] = t[1]

\* satisfies_simple(version, constraint) of stage 2
SatisfiesSimpleMatched(version, target, m) ==
    IF ~m.matched THEN "False"
    ELSE IF ~ValidVersion(version) \/ ~ValidVersion(target) THEN "ValueError"
    ELSE IF m.op \in {<<"~", "=">>, <<"^">>}
    THEN Bool(CompatibleRelease(parse_version(version), parse_version(target)))
    ELSE CompareWith(version, target, m.op)

satisfies_simple(version, constraint) ==
    SatisfiesSimpleMatched(version,
        Strip(ConstraintMatch(Strip(constraint), CheckerAlternation2).target),
        ConstraintMatch(Strip(constraint), CheckerAlternation2))

(***************************************************************************)
(* PackageManager, stage 4                                                 *)
(***************************************************************************)
NoExc == "none"

\* The requirer of the package install is called for
Root == <<"r", "o", "o", "t">>

\* if constraint: (neither None nor the empty string)
Truthy(constraint) == constraint # None /\ constraint # <<>>

KeyOf(versions) == [i \in 1..Len(versions) |-> _version_tuple(versions[i])]

\* sorted() compares an int with a str component.  Exact for lists of at most two
\* elements (one comparison); the model registers no longer list with such a pair.
SortRaises(versions) ==
    \E i, j \in 1..Len(versions) :
        i < j /\ TupleCmp(KeyOf(versions)[i], KeyOf(versions)[j]) = TypeError

\* Insert x into the ascending list after every element whose key is <= its key
RECURSIVE InsertSorted(_, _)
InsertSorted(sorted, x) ==
    IF Len(sorted) = 0 THEN <<x>>
    ELSE IF TupleCmp(_version_tuple(sorted[Len(sorted)]), _version_tuple(x)) <= 0
         THEN Append(sorted, x)
         ELSE Append(InsertSorted(SubSeq(sorted, 1, Len(sorted) - 1), x), sorted[Len(sorted)])

\* sorted(versions, key=self._version_tuple): ascending and stable
RECURSIVE SortedVersions(_)
SortedVersions(versions) ==
    IF Len(versions) = 0 THEN <<>>
    ELSE InsertSorted(SortedVersions(SubSeq(versions, 1, Len(versions) - 1)),
                      versions[Len(versions)])

\* self._registry[name] = {"versions": sorted(...), "dependencies": dependencies or {}}
register_package(reg, name, versions, dependencies) ==
    [n \in DOMAIN reg \cup {name} |->
        IF n = name
        THEN [versions |-> SortedVersions(versions), dependencies |-> dependencies]
        ELSE reg[n]]

\* self._registry[name]["dependencies"].get(version, [])
DepsOf(reg, name, version) ==
    IF version \in DOMAIN reg[name].dependencies
    THEN reg[name].dependencies[version] ELSE <<>>

\* [v for v in versions if self._matches_constraint(v, constraint)]
RECURSIVE Matching(_, _)
Matching(versions, constraint) ==
    IF Len(versions) = 0 THEN [exc |-> NoExc, list |-> <<>>]
    ELSE LET r == Matches(versions[1], constraint)
             rest == Matching(Tail(versions), constraint)
         IN IF r = "TypeError" THEN [exc |-> "TypeError", list |-> <<>>]
            ELSE IF rest.exc # NoExc THEN rest
            ELSE [exc |-> NoExc,
                  list |-> IF r = "True" THEN <<versions[1]>> \o rest.list ELSE rest.list]

\* _find_version: the last (highest) matching version, versions[-1] without a
\* constraint, None when there is none
_find_version(reg, name, constraint) ==
    IF name \notin DOMAIN reg THEN [exc |-> NoExc, version |-> None]
    ELSE LET versions == reg[name].versions
         IN IF Len(versions) = 0 THEN [exc |-> NoExc, version |-> None]
            ELSE IF constraint = None THEN [exc |-> NoExc, version |-> versions[Len(versions)]]
            ELSE LET m == Matching(versions, constraint)
                 IN IF m.exc # NoExc THEN [exc |-> m.exc, version |-> None]
                    ELSE [exc |-> NoExc,
                          version |-> IF Len(m.list) = 0 THEN None ELSE m.list[Len(m.list)]]

\* requirements: dict name -> [(requirer, constraint), ...] in insertion order,
\* a sequence of [pkg, reqs]
ReqNames(requirements) == {requirements[i].pkg : i \in 1..Len(requirements)}

ReqsFor(requirements, name) ==
    IF name \in ReqNames(requirements)
    THEN requirements[CHOOSE i \in 1..Len(requirements) : requirements[i].pkg = name].reqs
    ELSE <<>>

\* Mutant of AddRequirement: the constraint is not recorded
AddRequirementWithoutConstraint(requirements, name, constraint, requirer) ==
    IF name \in {requirements[i].pkg : i \in 1..Len(requirements)} THEN requirements
    ELSE Append(requirements, [pkg |-> name, reqs |-> <<>>])

\* Mutant of AddRequirement: a name that comes without a constraint is not
\* entered
AddRequirementOnlyConstrained(requirements, name, constraint, requirer) ==
    IF ~Truthy(constraint) THEN requirements
    ELSE IF name \in ReqNames(requirements)
    THEN [i \in 1..Len(requirements) |->
             IF requirements[i].pkg = name
             THEN [pkg |-> name,
                   reqs |-> Append(requirements[i].reqs, <<requirer, constraint>>)]
             ELSE requirements[i]]
    ELSE Append(requirements, [pkg |-> name, reqs |-> << <<requirer, constraint>> >>])

\* if name not in requirements: requirements[name] = []
\* if constraint: requirements[name].append((requirer, constraint))
AddRequirement(requirements, name, constraint, requirer) ==
    LET r1 == IF name \in ReqNames(requirements) THEN requirements
              ELSE Append(requirements, [pkg |-> name, reqs |-> <<>>])
    IN IF Truthy(constraint)
       THEN [i \in 1..Len(r1) |->
                IF r1[i].pkg = name
                THEN [pkg |-> name, reqs |-> Append(r1[i].reqs, <<requirer, constraint>>)]
                ELSE r1[i]]
       ELSE r1

\* any(c == dep_constraint for _, c in existing)
AlreadyVisited(requirements, dep_name, dep_constraint) ==
    \E i \in 1..Len(ReqsFor(requirements, dep_name)) :
        ReqsFor(requirements, dep_name)[i][2] = dep_constraint

\* constraints = [c for _, c in reqs]
ConstraintsOf(reqs) == [i \in 1..Len(reqs) |-> reqs[i][2]]

\* Depth of nested _collect_requirements calls at which the interpreter raises
\* RecursionError (sys.getrecursionlimit() is 1000 in CPython; the model's walks
\* that end need fewer than RecursionLimit frames)
RecursionLimit == 12

\* _collect_requirements(name, constraint, requirements, requirer): the
\* requirements dict when it returns, or the exception it raises.  examined
\* records the (package, version) pairs whose dependencies the walk has read,
\* each with the constraints that requirements held for the package then.
RECURSIVE _collect_requirements(_, _, _, _, _, _, _)
RECURSIVE CollectDeps(_, _, _, _, _, _, _)
\* _collect_requirements from "if name not in self._registry" on: r is the
\* requirements dict with this call's requirement, fv what _find_version gave
CollectFound(reg, name, r, fv, depth, examined) ==
    IF name \notin DOMAIN reg
    THEN [exc |-> NoExc, requirements |-> r, examined |-> examined]
    ELSE IF fv.exc # NoExc
    THEN [exc |-> fv.exc, requirements |-> r, examined |-> examined]
    ELSE IF fv.version = None
    THEN [exc |-> NoExc, requirements |-> r, examined |-> examined]
    ELSE CollectDeps(reg, name, DepsOf(reg, name, fv.version), 1, r, depth,
                     examined \cup {<<name, fv.version, ConstraintsOf(ReqsFor(r, name))>>})

_collect_requirements(reg, name, constraint, requirements, requirer, depth, examined) ==
    IF depth > RecursionLimit
    THEN [exc |-> "RecursionError", requirements |-> requirements, examined |-> examined]
    ELSE CollectFound(reg, name, AddRequirement(requirements, name, constraint, requirer),
                      _find_version(reg, name, constraint), depth, examined)

\* The loop over deps after the recursive call for deps[i] gave r
CollectNext(reg, name, deps, i, depth, r) ==
    IF r.exc # NoExc THEN r
    ELSE CollectDeps(reg, name, deps, i + 1, r.requirements, depth, r.examined)

\* for dep_name, dep_constraint in deps: (from the i-th on)
CollectDeps(reg, name, deps, i, requirements, depth, examined) ==
    IF i > Len(deps)
    THEN [exc |-> NoExc, requirements |-> requirements, examined |-> examined]
    ELSE IF AlreadyVisited(requirements, deps[i][1], deps[i][2])
    THEN CollectDeps(reg, name, deps, i + 1, requirements, depth, examined)
    ELSE CollectNext(reg, name, deps, i, depth,
                     _collect_requirements(reg, deps[i][1], deps[i][2],
                                           requirements, name, depth + 1, examined))

RECURSIVE FindCompatible(_, _, _)

\* Mutant of FindCompatible: the list is searched from its lowest version up
RECURSIVE FindLowestCompatible(_, _, _)
FindLowestCompatible(versions, i, constraints) ==
    IF i = 0 THEN [exc |-> NoExc, version |-> None]
    ELSE LET v == versions[Len(versions) - i + 1]
             r == AllMatch(v, constraints)
         IN IF r = "TypeError" THEN [exc |-> "TypeError", version |-> None]
            ELSE IF r = "True" THEN [exc |-> NoExc, version |-> v]
            ELSE FindLowestCompatible(versions, i - 1, constraints)

\* for version in reversed(versions): the first one (from index i down) that
\* satisfies all constraints; None when there is none
FindCompatible(versions, i, constraints) ==
    IF i = 0 THEN [exc |-> NoExc, version |-> None]
    ELSE LET r == AllMatch(versions[i], constraints)
         IN IF r = "TypeError" THEN [exc |-> "TypeError", version |-> None]
            ELSE IF r = "True" THEN [exc |-> NoExc, version |-> versions[i]]
            ELSE FindCompatible(versions, i - 1, constraints)

RECURSIVE ResolveAll(_, _, _, _, _)

\* Mutant of ResolveAll: the loop stops at the first conflict
ResolveUntilConflict(reg, requirements, i, conflicts, resolved) ==
    IF i > Len(requirements) \/ Len(conflicts) > 0
    THEN [exc |-> NoExc, conflicts |-> conflicts, resolved |-> resolved]
    ELSE LET pkg == requirements[i].pkg
             reqs == requirements[i].reqs
             conflict == [package |-> pkg, required_by |-> reqs]
             c == FindCompatible(reg[pkg].versions, Len(reg[pkg].versions),
                                 ConstraintsOf(reqs))
         IN IF pkg \notin DOMAIN reg
            THEN ResolveAll(reg, requirements, i + 1, Append(conflicts, conflict), resolved)
            ELSE IF c.exc # NoExc
            THEN [exc |-> c.exc, conflicts |-> conflicts, resolved |-> resolved]
            ELSE IF c.version = None
            THEN ResolveAll(reg, requirements, i + 1, Append(conflicts, conflict), resolved)
            ELSE ResolveAll(reg, requirements, i + 1, conflicts,
                            Append(resolved, <<pkg, c.version>>))

\* Mutant of ResolveAll: a package that is not registered is passed over
ResolveSkipUnknown(reg, requirements, i, conflicts, resolved) ==
    IF i > Len(requirements)
    THEN [exc |-> NoExc, conflicts |-> conflicts, resolved |-> resolved]
    ELSE LET pkg == requirements[i].pkg
             reqs == requirements[i].reqs
             conflict == [package |-> pkg, required_by |-> reqs]
             c == FindCompatible(reg[pkg].versions, Len(reg[pkg].versions),
                                 ConstraintsOf(reqs))
         IN IF pkg \notin DOMAIN reg
            THEN ResolveAll(reg, requirements, i + 1, conflicts, resolved)
            ELSE IF c.exc # NoExc
            THEN [exc |-> c.exc, conflicts |-> conflicts, resolved |-> resolved]
            ELSE IF c.version = None
            THEN ResolveAll(reg, requirements, i + 1, Append(conflicts, conflict), resolved)
            ELSE ResolveAll(reg, requirements, i + 1, conflicts,
                            Append(resolved, <<pkg, c.version>>))

\* The loop of install over requirements.items() (from the i-th on): the
\* conflicts list and the resolved dict (a sequence of <<pkg, version>>)
ResolveAll(reg, requirements, i, conflicts, resolved) ==
    IF i > Len(requirements)
    THEN [exc |-> NoExc, conflicts |-> conflicts, resolved |-> resolved]
    ELSE LET pkg == requirements[i].pkg
             reqs == requirements[i].reqs
             conflict == [package |-> pkg, required_by |-> reqs]
         IN IF pkg \notin DOMAIN reg
            THEN ResolveAll(reg, requirements, i + 1, Append(conflicts, conflict), resolved)
            ELSE LET c == FindCompatible(reg[pkg].versions, Len(reg[pkg].versions),
                                         ConstraintsOf(reqs))
                 IN IF c.exc # NoExc
                    THEN [exc |-> c.exc, conflicts |-> conflicts, resolved |-> resolved]
                    ELSE IF c.version = None
                    THEN ResolveAll(reg, requirements, i + 1,
                                    Append(conflicts, conflict), resolved)
                    ELSE ResolveAll(reg, requirements, i + 1, conflicts,
                                    Append(resolved, <<pkg, c.version>>))

\* A dict built by successive assignments d[k] = v, as a function
DictOf(pairs) ==
    [k \in {pairs[i][1] : i \in 1..Len(pairs)} |->
        pairs[CHOOSE i \in 1..Len(pairs) :
                  pairs[i][1] = k /\ \A j \in (i + 1)..Len(pairs) : pairs[j][1] # k][2]]

\* d[k] = v
DictSet(d, k, v) == [x \in DOMAIN d \cup {k} |-> IF x = k THEN v ELSE d[x]]

\* f"{name}=={version}"
InstalledEntry(name, version) == name \o <<"=", "=">> \o version

RECURSIVE _install_ordered(_, _, _, _)
RECURSIVE InstallDeps(_, _, _, _, _)

\* _install_ordered after its loop over deps gave d: self._packages[name] =
\* version; installed.append(f"{name}=={version}"); return True
InstallSelf(name, version, d) ==
    IF ~d.ok THEN d
    ELSE [ok |-> TRUE,
          st |-> [d.st EXCEPT !.packages = DictSet(@, name, version),
                              !.installed = Append(@, InstalledEntry(name, version))]]

\* _install_ordered from visiting.add(name) on, st1 having name in visiting
InstallVisiting(reg, resolved, st1, name) ==
    IF name \notin DOMAIN resolved THEN [ok |-> FALSE, st |-> st1]
    ELSE InstallSelf(name, resolved[name],
                     InstallDeps(reg, resolved, st1, DepsOf(reg, name, resolved[name]), 1))

\* Mutant of _install_ordered: a package met again while it is being installed
\* is an error (return False)
InstallOrderedCycleIsError(reg, resolved, st, name) ==
    IF name \in DOMAIN st.packages THEN [ok |-> TRUE, st |-> st]
    ELSE IF name \in st.visiting THEN [ok |-> FALSE, st |-> st]
    ELSE IF name \notin DOMAIN reg THEN [ok |-> FALSE, st |-> st]
    ELSE InstallVisiting(reg, resolved, [st EXCEPT !.visiting = @ \cup {name}], name)

\* Mutant of _install_ordered: a package that is installed already is
\* installed again
InstallOrderedReinstalls(reg, resolved, st, name) ==
    IF name \in st.visiting THEN [ok |-> TRUE, st |-> st]
    ELSE IF name \notin DOMAIN reg THEN [ok |-> FALSE, st |-> st]
    ELSE InstallVisiting(reg, resolved, [st EXCEPT !.visiting = @ \cup {name}], name)

\* _install_ordered(name, installed, visiting) with self._packages = st.packages:
\* the value returned and the three mutated objects
_install_ordered(reg, resolved, st, name) ==
    IF name \in DOMAIN st.packages THEN [ok |-> TRUE, st |-> st]
    ELSE IF name \in st.visiting THEN [ok |-> TRUE, st |-> st]
    ELSE IF name \notin DOMAIN reg THEN [ok |-> FALSE, st |-> st]
    ELSE InstallVisiting(reg, resolved, [st EXCEPT !.visiting = @ \cup {name}], name)

\* The loop over deps after the call for deps[i] gave r
InstallNextDep(reg, resolved, deps, i, r) ==
    IF ~r.ok THEN r ELSE InstallDeps(reg, resolved, r.st, deps, i + 1)

\* for dep_name, _ in deps: if not self._install_ordered(...): return False
InstallDeps(reg, resolved, st, deps, i) ==
    IF i > Len(deps) THEN [ok |-> TRUE, st |-> st]
    ELSE InstallNextDep(reg, resolved, deps, i,
                        _install_ordered(reg, resolved, st, deps[i][1]))

\* What a call returns or raises, the manager's fields after it, and what its
\* collection and selection steps found
Outcome(exc, success, installed, conflicts, pkgs, res, col, resolved) ==
    [exc |-> exc, success |-> success, installed |-> installed, conflicts |-> conflicts,
     packages |-> pkgs, resolved_versions |-> res,
     requirements |-> col.requirements, examined |-> col.examined, resolved |-> resolved]

NoCollection == [exc |-> NoExc, requirements |-> <<>>, examined |-> {}]

\* Mutant of ConflictReturn: the packages that did resolve are installed
ConflictReturnPartial(pkgs, res, col, sel) ==
    Outcome(NoExc, FALSE, [i \in 1..Len(sel.resolved) |->
                              InstalledEntry(sel.resolved[i][1], sel.resolved[i][2])],
            sel.conflicts,
            [n \in DOMAIN pkgs \cup DOMAIN DictOf(sel.resolved) |->
                IF n \in DOMAIN DictOf(sel.resolved) THEN DictOf(sel.resolved)[n] ELSE pkgs[n]],
            res, col, sel.resolved)

\* if conflicts: return False, [], conflicts (with either value of resolve_conflicts)
ConflictReturn(pkgs, res, col, sel) ==
    Outcome(NoExc, FALSE, <<>>, sel.conflicts, pkgs, res, col, sel.resolved)

\* return success, installed, [] after _install_ordered gave o
InstallReturn(col, sel, resolved, o) ==
    Outcome(NoExc, o.ok, o.st.installed, <<>>, o.st.packages, resolved, col, sel.resolved)

\* Mutant of InstallSelected: with resolve_conflicts the packages that did
\* resolve are installed in spite of the conflicts
InstallSelectedResolving(reg, pkgs, res, name, resolve_conflicts, col, sel) ==
    IF sel.exc # NoExc
    THEN Outcome(sel.exc, FALSE, <<>>, <<>>, pkgs, res, col, <<>>)
    ELSE IF Len(sel.conflicts) > 0
    THEN IF ~resolve_conflicts
         THEN ConflictReturn(pkgs, res, col, sel)
         ELSE ConflictReturnPartial(pkgs, res, col, sel)
    ELSE InstallReturn(col, sel, DictOf(sel.resolved),
                       _install_ordered(reg, DictOf(sel.resolved),
                           [packages |-> pkgs, installed |-> <<>>, visiting |-> {}], name))

\* install from "if conflicts" on, sel being what the selection loop gave
InstallSelected(reg, pkgs, res, name, resolve_conflicts, col, sel) ==
    IF sel.exc # NoExc
    THEN Outcome(sel.exc, FALSE, <<>>, <<>>, pkgs, res, col, <<>>)
    ELSE IF Len(sel.conflicts) > 0
    THEN IF ~resolve_conflicts
         THEN ConflictReturn(pkgs, res, col, sel)
         ELSE ConflictReturn(pkgs, res, col, sel)
    ELSE InstallReturn(col, sel, DictOf(sel.resolved),
                       _install_ordered(reg, DictOf(sel.resolved),
                           [packages |-> pkgs, installed |-> <<>>, visiting |-> {}], name))

\* install from "Check for conflicts" on, col being what the walk gave
InstallCollected(reg, pkgs, res, name, resolve_conflicts, col) ==
    IF col.exc # NoExc
    THEN Outcome(col.exc, FALSE, <<>>, <<>>, pkgs, res, NoCollection, <<>>)
    ELSE InstallSelected(reg, pkgs, res, name, resolve_conflicts, col,
                         ResolveAll(reg, col.requirements, 1, <<>>, <<>>))

\* install from "Collect all requirements" on: name is registered
InstallKnown(reg, pkgs, res, name, constraint, resolve_conflicts) ==
    InstallCollected(reg, pkgs, res, name, resolve_conflicts,
                     _collect_requirements(reg, name, constraint, <<>>, Root, 1, {}))

\* Mutant of install: the registry is not asked for the root name first
InstallWithoutGuard(reg, pkgs, res, name, constraint, resolve_conflicts) ==
    InstallKnown(reg, pkgs, res, name, constraint, resolve_conflicts)

\* install(name, constraint, resolve_conflicts) on a manager with registry reg,
\* _packages pkgs and _resolved_versions res
install(reg, pkgs, res, name, constraint, resolve_conflicts) ==
    IF name \notin DOMAIN reg
    THEN Outcome(NoExc, FALSE, <<>>, <<>>, pkgs, res, NoCollection, <<>>)
    ELSE InstallKnown(reg, pkgs, res, name, constraint, resolve_conflicts)

(***************************************************************************)
(* Inputs of the calls                                                     *)
(***************************************************************************)
EmptyDict == [k \in {} |-> <<>>]

\* {version: deps}
Deps1(v, deps) == [k \in {v} |-> deps]
Deps2(v, deps, w, wdeps) == [k \in {v, w} |-> IF k = v THEN deps ELSE wdeps]

Reg(name, versions, dependencies) ==
    [name |-> name, versions |-> versions, dependencies |-> dependencies]

\* The register_package calls of the model: the packages of the stage-4 tests
\* (app requiring pkg1 and pkg2, both requiring base) and around them edges
\* without a constraint (None, ""), two requirers with the same constraint,
\* cycles with and without constraints, a self-dependency, versions with
\* different dependencies, unsorted and empty version lists.  A name that is not
\* registered is an unknown package.
RegisterInputs ==
    { Reg(App, <<V100>>, Deps1(V100, << <<Pkg1, GE(V100)>>, <<Pkg2, GE(V100)>> >>)),
      Reg(App, <<V100>>, Deps1(V100, << <<Pkg1, None>>, <<Pkg2, <<>> >> >>)),
      Reg(App, <<V100>>, Deps1(V100, << <<Base, GE(V200)>>, <<Pkg2, GE(V100)>> >>)),
      Reg(Pkg1, <<V100>>, Deps1(V100, << <<Base, GE(V100)>> >>)),
      Reg(Pkg1, <<V200, V100>>, Deps2(V200, << <<Pkg2, EQ(V200)>> >>,
                                      V100, << <<Pkg2, EQ(V100)>> >>)),
      Reg(Pkg1, <<V100>>, Deps1(V100, << <<Pkg2, GE(V100)>> >>)),
      Reg(Pkg1, <<V200, V100>>, Deps1(V200, << <<Base, GE(V100)>> >>)),
      Reg(Pkg1, <<V100>>, Deps1(V100, << <<App, None>> >>)),
      Reg(Pkg2, <<V100>>, Deps1(V100, << <<Base, LE(V150)>> >>)),
      Reg(Pkg2, <<V100>>, Deps1(V100, << <<Base, GE(V200)>> >>)),
      Reg(Pkg2, <<V200, V100>>, Deps2(V200, << <<Pkg1, EQ(V100)>> >>,
                                      V100, << <<Pkg1, EQ(V200)>> >>)),
      Reg(Pkg2, <<V100>>, Deps1(V100, << <<Pkg1, LE(V150)>> >>)),
      Reg(Base, <<V200, V100, V150>>, EmptyDict),
      Reg(Base, <<V100>>, EmptyDict),
      Reg(Base, <<>>, EmptyDict),
      Reg(Base, <<V100>>, Deps1(V100, << <<Base, None>> >>)) }

\* The constraint argument of install
InstallConstraints == {None, LE(V150), EQ(V200)}

\* The install calls of the model: <<name, constraint, resolve_conflicts>>, the
\* flag at its default and, without a constraint, also switched off
InstallInputs ==
    (Names \X InstallConstraints \X {TRUE}) \cup (Names \X {None} \X {FALSE})

(***************************************************************************)
(* The manager as a state machine                                          *)
(***************************************************************************)
\* What the last call was and gave; fresh: the manager had nothing installed
\* when the call was made
Returned(op, name, constraint, pkgs, o) ==
    [op |-> op, name |-> name, constraint |-> constraint, fresh |-> pkgs = EmptyDict,
     exc |-> o.exc, success |-> o.success, installed |-> o.installed,
     conflicts |-> o.conflicts, requirements |-> o.requirements,
     examined |-> o.examined, resolved |-> o.resolved]

NoOutcome == Outcome(NoExc, TRUE, <<>>, <<>>, EmptyDict, EmptyDict, NoCollection, <<>>)

\* compare_versions calls: the component lists pa, pb, pc of three version
\* strings and, once done, what the calls on (a, b), (b, a), (b, c), (a, c),
\* (a, a) and (a, a + ".0") returned
CmpOf(pa, pb, pc) ==
    [pa |-> pa, pb |-> pb, pc |-> pc, done |-> FALSE,
     ab |-> 0, ba |-> 0, bc |-> 0, ac |-> 0, aa |-> 0, az |-> 0]

NoCmp == CmpOf(<< <<"0">> >>, << <<"0">> >>, << <<"0">> >>)

\* Matcher calls: the version and the constraint op + target and, once done,
\* what PackageManager._matches_constraint, satisfies of the checker's stage 1
\* and satisfies_simple of its stage 2 gave
SatOf(version, op, target) ==
    [version |-> version, op |-> op, target |-> target, constraint |-> op \o target,
     done |-> FALSE, pm |-> "", s1 |-> "", s2 |-> ""]

NoSat == SatOf(<<"0">>, <<>>, <<"0">>)

\* Lockfile calls: keys is the order of the keys of self._packages (a dict keeps
\* its keys in the order of their first assignment); lockfile is the argument
\* or the result of the last lockfile call; restored and relock are the
\* _packages of a second manager after install_from_lockfile(lockfile), and
\* what its generate_lockfile() returned; before is self._packages as it was
\* when install_from_lockfile was called
LockOf(op, keys, lockfile, before, restored, relock) ==
    [op |-> op, keys |-> keys, lockfile |-> lockfile, before |-> before,
     restored |-> restored, relock |-> relock]

NoLock == LockOf("init", <<>>, <<>>, <<>>, <<>>, <<>>)

\* The stage-2 manager: _packages as its items in key order, _dependencies,
\* and the last call with what it returned (install: the list installed;
\* uninstall: success and error_message) and _packages as it was before it
LedgerOf(pkgs, dependencies, op, name, success, error, installed, before) ==
    [packages |-> pkgs, dependencies |-> dependencies, op |-> op, name |-> name,
     success |-> success, error |-> error, installed |-> installed, before |-> before]

NoLedger == LedgerOf(<<>>, EmptyDict, "init", <<>>, TRUE, None, <<>>, <<>>)

Init ==
    /\ registry = EmptyDict
    /\ packages = EmptyDict
    /\ resolved_versions = EmptyDict
    /\ ret = Returned("init", <<>>, None, EmptyDict, NoOutcome)
    /\ cmp = NoCmp
    /\ sat = NoSat
    /\ lock = NoLock
    /\ ledger = NoLedger
    /\ threads = <<>>

\* The model registers packages before it installs: no register_package call
\* follows an install call.
RegisterPackage ==
    \E r \in RegisterInputs :
        /\ ret.op # "install"
        /\ registry' = register_package(registry, r.name, r.versions, r.dependencies)
        /\ ret' = Returned("register_package", <<>>, None, packages, NoOutcome)
        /\ UNCHANGED <<packages, resolved_versions, cmp, sat, lock, ledger, threads>>

Install ==
    \E in \in InstallInputs :
        \E o \in {install(registry, packages, resolved_versions, in[1], in[2], in[3])} :
           /\ packages' = o.packages
           /\ resolved_versions' = o.resolved_versions
           /\ ret' = Returned("install", in[1], in[2], packages, o)
           /\ UNCHANGED <<registry, cmp, sat, lock, ledger, threads>>

Next == RegisterPackage \/ Install

Spec == Init /\ [][Next]_vars

(***************************************************************************)
(* compare_versions on bounded version strings                             *)
(***************************************************************************)
\* The components a version string is written with
Numerals == {<<"0">>, <<"2">>, <<"1", "0">>}

MaxComponents == 2

ComponentLists == UNION {[1..n -> Numerals] : n \in 1..MaxComponents}

\* ".".join(parts)
RECURSIVE Join(_)
Join(parts) ==
    IF Len(parts) = 1 THEN parts[1]
    ELSE parts[1] \o <<".">> \o Join(Tail(parts))

InitCompare ==
    /\ registry = EmptyDict
    /\ packages = EmptyDict
    /\ resolved_versions = EmptyDict
    /\ ret = Returned("init", <<>>, None, EmptyDict, NoOutcome)
    /\ cmp \in {CmpOf(pa, pb, pc) : pa \in ComponentLists, pb \in ComponentLists,
                                    pc \in ComponentLists}
    /\ sat = NoSat
    /\ lock = NoLock
    /\ ledger = NoLedger
    /\ threads = <<>>

Compare ==
    /\ ~cmp.done
    /\ LET a == Join(cmp.pa)
           b == Join(cmp.pb)
           c == Join(cmp.pc)
       IN cmp' = [cmp EXCEPT !.done = TRUE,
                             !.ab = compare_versions(a, b),
                             !.ba = compare_versions(b, a),
                             !.bc = compare_versions(b, c),
                             !.ac = compare_versions(a, c),
                             !.aa = compare_versions(a, a),
                             !.az = compare_versions(a, a \o <<".", "0">>)]
    /\ UNCHANGED <<registry, packages, resolved_versions, ret, sat, lock, ledger, threads>>

NextCompare == Compare

SpecCompare == InitCompare /\ [][NextCompare]_vars

(***************************************************************************)
(* register_package on bounded version lists                               *)
(***************************************************************************)
V10 == <<"1", ".", "0">>
V2x == <<"2", ".", "x">>

\* The versions of the lists registered: 1.0 and 1.0.0 differ in a trailing
\* zero, 2.x has a component that is no number
ListedVersions == {V10, V100, V200, V2x}

MaxVersions == 2

\* The version lists registered: in any order, with repetitions
VersionLists == UNION {[1..n -> ListedVersions] : n \in 0..MaxVersions}

InitRegister ==
    /\ registry = EmptyDict
    /\ packages = EmptyDict
    /\ resolved_versions = EmptyDict
    /\ ret = Returned("init", <<>>, None, EmptyDict, NoOutcome)
    /\ cmp = NoCmp
    /\ sat = NoSat
    /\ lock = NoLock
    /\ ledger = NoLedger
    /\ threads = <<>>

\* register_package(name, versions) with no dependencies: the entry is stored, or
\* sorted() raises and nothing is stored
RegisterVersions ==
    \E name \in {App, Base}, versions \in VersionLists :
        /\ IF SortRaises(versions)
           THEN /\ registry' = registry
                /\ ret' = [Returned("register_package", name, None, packages, NoOutcome)
                              EXCEPT !.exc = "TypeError"]
           ELSE /\ registry' = register_package(registry, name, versions, EmptyDict)
                /\ ret' = Returned("register_package", name, None, packages, NoOutcome)
        /\ UNCHANGED <<packages, resolved_versions, cmp, sat, lock, ledger, threads>>

NextRegister == RegisterVersions

SpecRegister == InitRegister /\ [][NextRegister]_vars

(***************************************************************************)
(* The matchers on bounded versions and constraints                        *)
(***************************************************************************)
\* The version strings of the matcher calls: the numeric ones and two with a
\* component that is no number
MatchVersions ==
    {Join(p) : p \in ComponentLists} \cup {<<"x">>, <<"2", ".", "x">>}

\* The operator texts of the matcher calls: none, the six of the package
\* manager, "=" and ">=" with spaces around it
MatchOps ==
    {<<>>, <<"=", "=">>, <<">", "=">>, <<"<", "=">>, <<">">>, <<"<">>, <<"~", "=">>,
     <<"=">>, <<" ", ">", "=", " ">>}

InitMatch ==
    /\ registry = EmptyDict
    /\ packages = EmptyDict
    /\ resolved_versions = EmptyDict
    /\ ret = Returned("init", <<>>, None, EmptyDict, NoOutcome)
    /\ cmp = NoCmp
    /\ sat \in {SatOf(v, op, t) : v \in MatchVersions, op \in MatchOps, t \in MatchVersions}
    /\ lock = NoLock
    /\ ledger = NoLedger
    /\ threads = <<>>

Match ==
    /\ ~sat.done
    /\ sat' = [sat EXCEPT !.done = TRUE,
                          !.pm = _matches_constraint(sat.version, sat.constraint),
                          !.s1 = satisfies(sat.version, sat.constraint),
                          !.s2 = satisfies_simple(sat.version, sat.constraint)]
    /\ UNCHANGED <<registry, packages, resolved_versions, ret, cmp, lock, ledger, threads>>

NextMatch == Match

SpecMatch == InitMatch /\ [][NextMatch]_vars

(***************************************************************************)
(* PackageManager, stage 4: generate_lockfile and install_from_lockfile    *)
(***************************************************************************)
\* self._packages.items(): the (name, version) pairs in the order of the keys
Items(keys, pkgs) == [i \in 1..Len(keys) |-> <<keys[i], pkgs[keys[i]]>>]

\* Python's ordering of two (str, str) tuples: -1, 0, 1
ItemCmp(a, b) ==
    IF StrCmp(a[1], b[1]) # 0 THEN StrCmp(a[1], b[1]) ELSE StrCmp(a[2], b[2])

\* Insert x into the ascending list after every item that is <= x
RECURSIVE InsertItem(_, _)
InsertItem(sorted, x) ==
    IF Len(sorted) = 0 THEN <<x>>
    ELSE IF ItemCmp(sorted[Len(sorted)], x) <= 0 THEN Append(sorted, x)
    ELSE Append(InsertItem(SubSeq(sorted, 1, Len(sorted) - 1), x), sorted[Len(sorted)])

\* sorted(items): ascending and stable
RECURSIVE SortedItems(_)
SortedItems(items) ==
    IF Len(items) = 0 THEN <<>>
    ELSE InsertItem(SortedItems(SubSeq(items, 1, Len(items) - 1)), items[Len(items)])

\* Mutant of generate_lockfile: the items in the order of the keys, not sorted
GenerateLockfileUnsorted(keys, pkgs) == Items(keys, pkgs)

\* generate_lockfile() with self._packages = pkgs, its keys in the order keys:
\* dict(sorted(self._packages.items())), a dict as the list of its items
generate_lockfile(keys, pkgs) == SortedItems(Items(keys, pkgs))

\* self._packages[name] = version on st = [packages, keys]
LockSet(st, name, version) ==
    [packages |-> DictSet(st.packages, name, version),
     keys |-> IF name \in DOMAIN st.packages THEN st.keys ELSE Append(st.keys, name)]

\* for name, version in lockfile.items(): if name in self._registry:
\*     self._packages[name] = version          (from the i-th item on)
RECURSIVE LockEntries(_, _, _, _)
LockEntries(reg, st, lockfile, i) ==
    IF i > Len(lockfile) THEN st
    ELSE IF lockfile[i][1] \in DOMAIN reg
    THEN LockEntries(reg, LockSet(st, lockfile[i][1], lockfile[i][2]), lockfile, i + 1)
    ELSE LockEntries(reg, st, lockfile, i + 1)

\* Mutant of install_from_lockfile: a package that is installed keeps its version
RECURSIVE LockEntriesKeep(_, _, _, _)
LockEntriesKeep(reg, st, lockfile, i) ==
    IF i > Len(lockfile) THEN st
    ELSE IF lockfile[i][1] \in DOMAIN reg /\ lockfile[i][1] \notin DOMAIN st.packages
    THEN LockEntriesKeep(reg, LockSet(st, lockfile[i][1], lockfile[i][2]), lockfile, i + 1)
    ELSE LockEntriesKeep(reg, st, lockfile, i + 1)

InstallFromLockfileKeepsInstalled(reg, st, lockfile) ==
    [ok |-> TRUE, st |-> LockEntriesKeep(reg, st, lockfile, 1)]

\* Mutant of install_from_lockfile: the latest registered version is installed
RECURSIVE LockEntriesLatest(_, _, _, _)
LockEntriesLatest(reg, st, lockfile, i) ==
    IF i > Len(lockfile) THEN st
    ELSE IF lockfile[i][1] \in DOMAIN reg /\ Len(reg[lockfile[i][1]].versions) > 0
    THEN LockEntriesLatest(reg, LockSet(st, lockfile[i][1],
                               reg[lockfile[i][1]].versions[Len(reg[lockfile[i][1]].versions)]),
                           lockfile, i + 1)
    ELSE LockEntriesLatest(reg, st, lockfile, i + 1)

InstallFromLockfileLatest(reg, st, lockfile) ==
    [ok |-> TRUE, st |-> LockEntriesLatest(reg, st, lockfile, 1)]

\* install_from_lockfile(lockfile) on a manager with registry reg and
\* st = [packages, keys]: the value returned and the manager after the call
install_from_lockfile(reg, st, lockfile) ==
    [ok |-> TRUE, st |-> LockEntries(reg, st, lockfile, 1)]

\* The name in an entry f"{name}=={version}" of the list install returns
NameOf(entry) == Split(entry, "=")[1]

\* The keys of self._packages after install returned the list installed: each
\* of its entries was appended with the assignment of a new key
KeysAfter(keys, installed) == keys \o [i \in 1..Len(installed) |-> NameOf(installed[i])]

\* The registry of the lockfile calls: register_package(base), (pkg1), (pkg2),
\* and in one of the two (app)
LockRegistryBase ==
    register_package(
        register_package(
            register_package(EmptyDict, Base, <<V200, V100, V150>>, EmptyDict),
            Pkg1, <<V100>>, Deps1(V100, << <<Base, GE(V100)>> >>)),
        Pkg2, <<V100>>, Deps1(V100, << <<Base, LE(V150)>> >>))

LockRegistries ==
    { LockRegistryBase,
      register_package(LockRegistryBase, App, <<V100>>,
                       Deps1(V100, << <<Pkg1, GE(V100)>>, <<Pkg2, GE(V100)>> >>)) }

\* The lockfile arguments of install_from_lockfile, dicts as lists of items
LockfileInputs ==
    { <<>>,
      << <<Base, V100>> >>,
      << <<Pkg2, V200>>, <<Base, V200>> >>,
      << <<App, V150>>, <<Pkg1, V100>> >> }

InitLock ==
    /\ registry \in LockRegistries
    /\ packages = EmptyDict
    /\ resolved_versions = EmptyDict
    /\ ret = Returned("init", <<>>, None, EmptyDict, NoOutcome)
    /\ cmp = NoCmp
    /\ sat = NoSat
    /\ lock = NoLock
    /\ ledger = NoLedger
    /\ threads = <<>>

LockInstall ==
    \E name \in Names, constraint \in {None, LE(V100)} :
        \E o \in {install(registry, packages, resolved_versions, name, constraint, TRUE)} :
           /\ packages' = o.packages
           /\ resolved_versions' = o.resolved_versions
           /\ lock' = LockOf("install", KeysAfter(lock.keys, o.installed), <<>>, <<>>, <<>>, <<>>)
           /\ UNCHANGED <<registry, ret, cmp, sat, ledger, threads>>

InstallFromLockfile ==
    \E lockfile \in LockfileInputs :
        \E r \in {install_from_lockfile(registry,
                      [packages |-> packages, keys |-> lock.keys], lockfile)} :
           /\ packages' = r.st.packages
           /\ lock' = LockOf("install_from_lockfile", r.st.keys, lockfile, packages, <<>>, <<>>)
           /\ UNCHANGED <<registry, resolved_versions, ret, cmp, sat, ledger, threads>>

GenerateLockfile ==
    /\ lock' = LockOf("generate_lockfile", lock.keys,
                      generate_lockfile(lock.keys, packages), <<>>, <<>>, <<>>)
    /\ UNCHANGED <<registry, packages, resolved_versions, ret, cmp, sat, ledger, threads>>

\* A second manager with the same registry and nothing installed is given the
\* lockfile that generate_lockfile() just returned, and then asked for its own
Restore ==
    /\ lock.op = "generate_lockfile"
    /\ \E r \in {install_from_lockfile(registry,
                     [packages |-> EmptyDict, keys |-> <<>>], lock.lockfile)} :
          lock' = LockOf("restore", lock.keys, lock.lockfile, <<>>, r.st.packages,
                         generate_lockfile(r.st.keys, r.st.packages))
    /\ UNCHANGED <<registry, packages, resolved_versions, ret, cmp, sat, ledger, threads>>

NextLock == LockInstall \/ InstallFromLockfile \/ GenerateLockfile \/ Restore

SpecLock == InitLock /\ [][NextLock]_vars

(***************************************************************************)
(* PackageManager, stage 2: install, uninstall, get_dependents             *)
(***************************************************************************)
\* The version _install_recursive gives to a dependency
LatestVersion == <<"l", "a", "t", "e", "s", "t">>

\* name in self._packages, the dict as the list of its items
Has(pkgs, name) == \E i \in 1..Len(pkgs) : pkgs[i][1] = name

\* x in list
Contains(list, x) == \E i \in 1..Len(list) : list[i] = x

\* self._dependencies.get(pkg, [])
get_dependencies(dependencies, pkg) ==
    IF pkg \in DOMAIN dependencies THEN dependencies[pkg] ELSE <<>>

\* register_package(name, version, dependencies):
\* self._dependencies[name] = dependencies or []
RegisterDependencies(dependencies, name, version, deps) ==
    DictSet(dependencies, name, deps)

\* self._packages[name] = version: the value of an old key is replaced in
\* place, a new key goes to the end
ItemSet(pkgs, name, version) ==
    IF Has(pkgs, name)
    THEN [i \in 1..Len(pkgs) |-> IF pkgs[i][1] = name THEN <<name, version>> ELSE pkgs[i]]
    ELSE Append(pkgs, <<name, version>>)

RECURSIVE _install_recursive(_, _, _, _)
RECURSIVE InstallRecursiveDeps(_, _, _, _)

\* self._packages[name] = version; installed.append(name)
InstallRecursiveSelf(st, name, version) ==
    [st EXCEPT !.packages = ItemSet(@, name, version), !.installed = Append(@, name)]

\* Mutant of _install_recursive: the package is installed before its
\* dependencies
InstallRecursiveSelfFirst(dependencies, st, name, version) ==
    IF Has(st.packages, name) \/ name \in st.visiting THEN st
    ELSE InstallRecursiveDeps(dependencies,
             InstallRecursiveSelf([st EXCEPT !.visiting = @ \cup {name}], name, version),
             get_dependencies(dependencies, name), 1)

\* _install_recursive(name, version, installed, visiting) with
\* st = [packages, installed, visiting]: the three objects after the call
_install_recursive(dependencies, st, name, version) ==
    IF Has(st.packages, name) \/ name \in st.visiting THEN st
    ELSE InstallRecursiveSelf(
             InstallRecursiveDeps(dependencies, [st EXCEPT !.visiting = @ \cup {name}],
                                  get_dependencies(dependencies, name), 1),
             name, version)

\* for dep in self._dependencies.get(name, []): if dep not in self._packages:
\*     self._install_recursive(dep, "latest", installed, visiting)
InstallRecursiveDeps(dependencies, st, deps, i) ==
    IF i > Len(deps) THEN st
    ELSE IF ~Has(st.packages, deps[i])
    THEN InstallRecursiveDeps(dependencies,
                              _install_recursive(dependencies, st, deps[i], LatestVersion),
                              deps, i + 1)
    ELSE InstallRecursiveDeps(dependencies, st, deps, i + 1)

\* install(name, version) of stage 2: the list returned and self._packages
\* after the call
LedgerInstalled(dependencies, pkgs, name, version) ==
    IF Has(pkgs, name) THEN [packages |-> pkgs, installed |-> <<>>, visiting |-> {}]
    ELSE _install_recursive(dependencies,
                            [packages |-> pkgs, installed |-> <<>>, visiting |-> {}],
                            name, version)

\* The installed packages that have name in their dependencies, in the order
\* of the keys of self._packages
Dependents(dependencies, pkgs, name) ==
    SelectSeq([i \in 1..Len(pkgs) |-> pkgs[i][1]],
              LAMBDA pkg : Contains(get_dependencies(dependencies, pkg), name))

\* Insert the str x into the ascending list after every element that is <= x
RECURSIVE InsertName(_, _)
InsertName(sorted, x) ==
    IF Len(sorted) = 0 THEN <<x>>
    ELSE IF StrCmp(sorted[Len(sorted)], x) <= 0 THEN Append(sorted, x)
    ELSE Append(InsertName(SubSeq(sorted, 1, Len(sorted) - 1), x), sorted[Len(sorted)])

RECURSIVE SortedNames(_)
SortedNames(names) ==
    IF Len(names) = 0 THEN <<>>
    ELSE InsertName(SortedNames(SubSeq(names, 1, Len(names) - 1)), names[Len(names)])

\* get_dependents(name): sorted(dependents)
get_dependents(dependencies, pkgs, name) == SortedNames(Dependents(dependencies, pkgs, name))

\* "Package not installed"
NotInstalledError == <<"P", "a", "c", "k", "a", "g", "e", " ", "n", "o", "t", " ", "i", "n", "s", "t", "a", "l", "l", "e", "d">>

\* f"Cannot uninstall: {pkg} depends on {name}"
DependsError(pkg, name) ==
    <<"C", "a", "n", "n", "o", "t", " ", "u", "n", "i", "n", "s", "t", "a", "l", "l", ":", " ">> \o pkg
        \o <<" ", "d", "e", "p", "e", "n", "d", "s", " ", "o", "n", " ">> \o name

\* del self._packages[name]
ItemDel(pkgs, name) == SelectSeq(pkgs, LAMBDA item : item[1] # name)

\* uninstall from the loop over self._packages on, blockers being the
\* installed packages that depend on name, in key order
UninstallInstalled(pkgs, name, blockers) ==
    IF Len(blockers) > 0
    THEN [success |-> FALSE, error |-> DependsError(blockers[1], name), packages |-> pkgs]
    ELSE [success |-> TRUE, error |-> None, packages |-> ItemDel(pkgs, name)]

\* Mutant of uninstall: the dependents are not looked for
UninstallUnchecked(dependencies, pkgs, name) ==
    IF ~Has(pkgs, name)
    THEN [success |-> FALSE, error |-> NotInstalledError, packages |-> pkgs]
    ELSE [success |-> TRUE, error |-> None, packages |-> ItemDel(pkgs, name)]

\* Mutant of uninstall: the installed dependencies of name block its removal,
\* not its dependents
UninstallBlockedByDependencies(dependencies, pkgs, name) ==
    IF ~Has(pkgs, name)
    THEN [success |-> FALSE, error |-> NotInstalledError, packages |-> pkgs]
    ELSE UninstallInstalled(pkgs, name,
             SelectSeq(get_dependencies(dependencies, name), LAMBDA dep : Has(pkgs, dep)))

\* uninstall(name): (success, error_message) and self._packages after the call
uninstall(dependencies, pkgs, name) ==
    IF ~Has(pkgs, name)
    THEN [success |-> FALSE, error |-> NotInstalledError, packages |-> pkgs]
    ELSE UninstallInstalled(pkgs, name, Dependents(dependencies, pkgs, name))

\* The register_package calls of stage 2: <<name, dependencies>>
LedgerRegisterInputs ==
    { <<Base, <<>> >>, <<Pkg1, <<Base>> >>, <<Pkg2, <<Base>> >>,
      <<App, <<Pkg1, Pkg2>> >>, <<Base, <<App>> >> }

InitLedger ==
    /\ registry = EmptyDict
    /\ packages = EmptyDict
    /\ resolved_versions = EmptyDict
    /\ ret = Returned("init", <<>>, None, EmptyDict, NoOutcome)
    /\ cmp = NoCmp
    /\ sat = NoSat
    /\ lock = NoLock
    /\ ledger = NoLedger
    /\ threads = <<>>

LedgerRegister ==
    \E in \in LedgerRegisterInputs :
        /\ ledger' = LedgerOf(ledger.packages,
                              RegisterDependencies(ledger.dependencies, in[1], V100, in[2]),
                              "register_package", in[1], TRUE, None, <<>>, ledger.packages)
        /\ UNCHANGED <<registry, packages, resolved_versions, ret, cmp, sat, lock, threads>>

LedgerInstall ==
    \E name \in Names :
        \E st \in {LedgerInstalled(ledger.dependencies, ledger.packages, name, V100)} :
           /\ ledger' = LedgerOf(st.packages, ledger.dependencies, "install", name,
                                 TRUE, None, st.installed, ledger.packages)
           /\ UNCHANGED <<registry, packages, resolved_versions, ret, cmp, sat, lock, threads>>

LedgerUninstall ==
    \E name \in Names :
        \E r \in {uninstall(ledger.dependencies, ledger.packages, name)} :
           /\ ledger' = LedgerOf(r.packages, ledger.dependencies, "uninstall", name,
                                 r.success, r.error, <<>>, ledger.packages)
           /\ UNCHANGED <<registry, packages, resolved_versions, ret, cmp, sat, lock, threads>>

NextLedger == LedgerRegister \/ LedgerInstall \/ LedgerUninstall

SpecLedger == InitLedger /\ [][NextLedger]_vars

(***************************************************************************)
(* install of stage 4 and of stage 2, one manager in a behaviour             *)
(***************************************************************************)
\* A behaviour drives either the stage-4 manager or the stage-2 manager: the
\* two share nothing, and the calls of the one are made while the other is as
\* constructed.
NextInstallers ==
    \/ ledger.op = "init" /\ Next
    \/ ret.op = "init" /\ NextLedger

SpecInstallers == Init /\ [][NextInstallers]_vars

(***************************************************************************)
(* Two install calls of stage 4 that run concurrently                      *)
(***************************************************************************)
\* A call that has not begun: its arguments and its place in install
CallOf(name, constraint) ==
    [name |-> name, constraint |-> constraint, pc |-> "start",
     exc |-> NoExc, success |-> FALSE, installed |-> <<>>, conflicts |-> <<>>,
     own |-> EmptyDict]

\* The call has returned what o holds
CallDone(call, o) ==
    [call EXCEPT !.pc = "done", !.exc = o.exc, !.success = o.success,
                 !.installed = o.installed, !.conflicts = o.conflicts]

\* install up to "Store resolved versions", sel being what the selection loop
\* gave: the call has returned (done, o), or goes on with its dict resolved
ResolveSelected(pkgs, res, col, sel) ==
    IF sel.exc # NoExc
    THEN [done |-> TRUE, o |-> Outcome(sel.exc, FALSE, <<>>, <<>>, pkgs, res, col, <<>>),
          resolved |-> EmptyDict]
    ELSE IF Len(sel.conflicts) > 0
    THEN [done |-> TRUE, o |-> ConflictReturn(pkgs, res, col, sel), resolved |-> EmptyDict]
    ELSE [done |-> FALSE, o |-> NoOutcome, resolved |-> DictOf(sel.resolved)]

\* install up to "Check for conflicts", col being what the walk gave
ResolveCollected(reg, pkgs, res, col) ==
    IF col.exc # NoExc
    THEN [done |-> TRUE, o |-> Outcome(col.exc, FALSE, <<>>, <<>>, pkgs, res, NoCollection, <<>>),
          resolved |-> EmptyDict]
    ELSE ResolveSelected(pkgs, res, col, ResolveAll(reg, col.requirements, 1, <<>>, <<>>))

\* install(name, constraint) from its first line to the line before
\* self._resolved_versions = resolved
ResolveCall(reg, pkgs, res, name, constraint) ==
    IF name \notin DOMAIN reg
    THEN [done |-> TRUE, o |-> Outcome(NoExc, FALSE, <<>>, <<>>, pkgs, res, NoCollection, <<>>),
          resolved |-> EmptyDict]
    ELSE ResolveCollected(reg, pkgs, res,
                          _collect_requirements(reg, name, constraint, <<>>, Root, 1, {}))

\* The two calls of the model
ConcurrentCalls == {CallOf(name, constraint) : name \in Names, constraint \in {None, LE(V150)}}

InitConcurrent ==
    /\ registry \in LockRegistries
    /\ packages = EmptyDict
    /\ resolved_versions = EmptyDict
    /\ ret = Returned("init", <<>>, None, EmptyDict, NoOutcome)
    /\ cmp = NoCmp
    /\ sat = NoSat
    /\ lock = NoLock
    /\ ledger = NoLedger
    /\ threads \in [1..2 -> ConcurrentCalls]

\* A call runs install up to and with self._resolved_versions = resolved
ResolveStep ==
    \E t \in 1..2 :
        /\ threads[t].pc = "start"
        /\ \E r \in {ResolveCall(registry, packages, resolved_versions,
                                 threads[t].name, threads[t].constraint)} :
              IF r.done
              THEN /\ threads' = [threads EXCEPT ![t] = CallDone(@, r.o)]
                   /\ UNCHANGED resolved_versions
              ELSE /\ threads' = [threads EXCEPT ![t].pc = "resolved", ![t].own = r.resolved]
                   /\ resolved_versions' = r.resolved
        /\ UNCHANGED <<registry, packages, ret, cmp, sat, lock, ledger>>

\* The call runs the rest of install: _install_ordered reads
\* self._resolved_versions as it is now
InstallStep ==
    \E t \in 1..2 :
        /\ threads[t].pc = "resolved"
        /\ \E o \in {_install_ordered(registry, resolved_versions,
                         [packages |-> packages, installed |-> <<>>, visiting |-> {}],
                         threads[t].name)} :
              /\ packages' = o.st.packages
              /\ threads' = [threads EXCEPT ![t].pc = "done", ![t].success = o.ok,
                                            ![t].installed = o.st.installed]
        /\ UNCHANGED <<registry, resolved_versions, ret, cmp, sat, lock, ledger>>

NextConcurrent == ResolveStep \/ InstallStep

SpecConcurrent == InitConcurrent /\ [][NextConcurrent]_vars

(***************************************************************************)
(* install and uninstall calls of stage 2 that run concurrently            *)
(***************************************************************************)
\* A stage-2 call that has not begun
LedgerCallOf(op, name) ==
    [op |-> op, name |-> name, pc |-> "start", exc |-> NoExc, success |-> FALSE,
     error |-> None, installed |-> <<>>]

LedgerCalls == {LedgerCallOf(op, name) : op \in {"install", "uninstall"}, name \in Names}

\* The _dependencies after register_package of base, pkg1, pkg2 and app
DiamondDependencies ==
    RegisterDependencies(
        RegisterDependencies(
            RegisterDependencies(
                RegisterDependencies(EmptyDict, Base, V100, <<>>),
                Pkg1, V100, <<Base>>),
            Pkg2, V100, <<Base>>),
        App, V100, <<Pkg1, Pkg2>>)

\* The _packages the concurrent calls start from: nothing installed, or
\* install("base", "1.0.0") or install("pkg1", "1.0.0") was made
InstalledAtStart ==
    { <<>>,
      LedgerInstalled(DiamondDependencies, <<>>, Base, V100).packages,
      LedgerInstalled(DiamondDependencies, <<>>, Pkg1, V100).packages }

InitLedgerConcurrent ==
    /\ registry = EmptyDict
    /\ packages = EmptyDict
    /\ resolved_versions = EmptyDict
    /\ ret = Returned("init", <<>>, None, EmptyDict, NoOutcome)
    /\ cmp = NoCmp
    /\ sat = NoSat
    /\ lock = NoLock
    /\ ledger \in {[NoLedger EXCEPT !.dependencies = DiamondDependencies, !.packages = pkgs]
                      : pkgs \in InstalledAtStart}
    /\ threads \in [1..2 -> LedgerCalls]

\* A call of install(name, "1.0.0") runs from its first line to its return
InstallCall ==
    \E t \in 1..2 :
        /\ threads[t].op = "install" /\ threads[t].pc = "start"
        /\ \E st \in {LedgerInstalled(ledger.dependencies, ledger.packages,
                                      threads[t].name, V100)} :
              /\ ledger' = [ledger EXCEPT !.packages = st.packages]
              /\ threads' = [threads EXCEPT ![t].pc = "done", ![t].success = TRUE,
                                            ![t].installed = st.installed]
        /\ UNCHANGED <<registry, packages, resolved_versions, ret, cmp, sat, lock>>

\* A call of uninstall(name) runs up to "del self._packages[name]": it returns
\* from one of the two tests, or goes on to the removal
UninstallCheck ==
    \E t \in 1..2 :
        /\ threads[t].op = "uninstall" /\ threads[t].pc = "start"
        /\ \E r \in {uninstall(ledger.dependencies, ledger.packages, threads[t].name)} :
              threads' = IF r.success
                         THEN [threads EXCEPT ![t].pc = "delete"]
                         ELSE [threads EXCEPT ![t].pc = "done", ![t].error = r.error]
        /\ UNCHANGED <<registry, packages, resolved_versions, ret, cmp, sat, lock, ledger>>

\* del self._packages[name]; return True, None.  del raises KeyError when
\* the name is no key
UninstallDelete ==
    \E t \in 1..2 :
        /\ threads[t].pc = "delete"
        /\ IF Has(ledger.packages, threads[t].name)
           THEN /\ ledger' = [ledger EXCEPT !.packages = ItemDel(@, threads[t].name)]
                /\ threads' = [threads EXCEPT ![t].pc = "done", ![t].success = TRUE]
           ELSE /\ ledger' = ledger
                /\ threads' = [threads EXCEPT ![t].pc = "done", ![t].exc = "KeyError"]
        /\ UNCHANGED <<registry, packages, resolved_versions, ret, cmp, sat, lock>>

NextLedgerConcurrent == InstallCall \/ UninstallCheck \/ UninstallDelete

SpecLedgerConcurrent == InitLedgerConcurrent /\ [][NextLedgerConcurrent]_vars

(***************************************************************************)
(* install on registries with dependencies that carry no constraint        *)
(***************************************************************************)
\* register_package of base with three versions and of pkg2, which wants
\* base<=1.5.0
RegistryBasePkg2 ==
    register_package(
        register_package(EmptyDict, Base, <<V100, V150, V200>>, EmptyDict),
        Pkg2, <<V100>>, Deps1(V100, << <<Base, LE(V150)>> >>))

\* The dependencies of app 1.0.0 in the registries of these calls: base, or
\* pkg1 which is not registered, with no constraint (None or ""), alone or
\* beside pkg2
UnconstrainedDeps ==
    { << <<Base, None>> >>,
      << <<Base, <<>> >> >>,
      << <<Base, None>>, <<Pkg2, GE(V100)>> >>,
      << <<Pkg2, GE(V100)>>, <<Base, None>> >>,
      << <<Base, <<>> >>, <<Pkg2, GE(V100)>> >>,
      << <<Pkg1, None>>, <<Pkg2, GE(V100)>> >> }

\* A registry where only pkg1 2.0.0 wants base (with no constraint), and pkg2
\* wants pkg1<=1.5.0
RegistryPkg1Versions ==
    register_package(
        register_package(
            register_package(
                register_package(EmptyDict, Base, <<V100, V150, V200>>, EmptyDict),
                Pkg1, <<V100, V200>>, Deps1(V200, << <<Base, None>> >>)),
            Pkg2, <<V100>>, Deps1(V100, << <<Pkg1, LE(V150)>> >>)),
        App, <<V100>>, Deps1(V100, << <<Pkg1, GE(V100)>>, <<Pkg2, GE(V100)>> >>))

\* A registry where app wants pkg1 and, with the empty constraint, pkg2, whose
\* dependency base nothing else wants
RegistryEmptyConstraint ==
    register_package(
        register_package(RegistryBasePkg2, Pkg1, <<V100>>, EmptyDict),
        App, <<V100>>, Deps1(V100, << <<Pkg1, GE(V100)>>, <<Pkg2, <<>> >> >>))

InitUnconstrained ==
    /\ registry \in {register_package(RegistryBasePkg2, App, <<V100>>, Deps1(V100, deps))
                        : deps \in UnconstrainedDeps}
                   \cup {RegistryPkg1Versions, RegistryEmptyConstraint}
    /\ packages = EmptyDict
    /\ resolved_versions = EmptyDict
    /\ ret = Returned("init", <<>>, None, EmptyDict, NoOutcome)
    /\ cmp = NoCmp
    /\ sat = NoSat
    /\ lock = NoLock
    /\ ledger = NoLedger
    /\ threads = <<>>

NextUnconstrained == Install

SpecUnconstrained == InitUnconstrained /\ [][NextUnconstrained]_vars

(***************************************************************************)
(* PackageManager, stage 3: install                                        *)
(* register_package, _find_version, _matches_constraint and _version_tuple *)
(* of stage 3 are those of stage 4, line for line.                         *)
(***************************************************************************)
RECURSIVE _install_recursive_stage3(_, _, _, _)
RECURSIVE Stage3Deps(_, _, _, _)

\* _install_recursive after its loop over deps gave d: self._packages[name] =
\* version; installed.append(f"{name}=={version}"); return True
Stage3Self(name, version, d) ==
    IF d.exc # NoExc \/ ~d.ok THEN d
    ELSE [exc |-> NoExc, ok |-> TRUE,
          st |-> [d.st EXCEPT !.packages = DictSet(@, name, version),
                              !.installed = Append(@, InstalledEntry(name, version))]]

\* _install_recursive(name, version, installed, visiting) of stage 3 with
\* st = [packages, installed, visiting]: the value returned (or the exception
\* raised) and the three objects after the call
_install_recursive_stage3(reg, st, name, version) ==
    IF name \in DOMAIN st.packages THEN [exc |-> NoExc, ok |-> TRUE, st |-> st]
    ELSE IF name \in st.visiting THEN [exc |-> NoExc, ok |-> FALSE, st |-> st]
    ELSE Stage3Self(name, version,
                    Stage3Deps(reg, [st EXCEPT !.visiting = @ \cup {name}],
                               DepsOf(reg, name, version), 1))

\* The loop over deps after the call for deps[i] gave r
Stage3Next(reg, deps, i, r) ==
    IF r.exc # NoExc \/ ~r.ok THEN r ELSE Stage3Deps(reg, r.st, deps, i + 1)

\* The loop over deps after _find_version(dep_name, constraint) gave fv
Stage3Found(reg, st, deps, i, fv) ==
    IF fv.exc # NoExc THEN [exc |-> fv.exc, ok |-> FALSE, st |-> st]
    ELSE IF fv.version = None THEN [exc |-> NoExc, ok |-> FALSE, st |-> st]
    ELSE Stage3Next(reg, deps, i,
                    _install_recursive_stage3(reg, st, deps[i][1], fv.version))

\* for dep_name, constraint in deps: ... (from the i-th on)
Stage3Deps(reg, st, deps, i) ==
    IF i > Len(deps) THEN [exc |-> NoExc, ok |-> TRUE, st |-> st]
    ELSE Stage3Found(reg, st, deps, i, _find_version(reg, deps[i][1], deps[i][2]))

\* install of stage 3 after _find_version(name, constraint) gave fv
Stage3Install(reg, pkgs, name, fv) ==
    IF fv.exc # NoExc
    THEN [exc |-> fv.exc, ok |-> FALSE,
          st |-> [packages |-> pkgs, installed |-> <<>>, visiting |-> {}]]
    ELSE IF fv.version = None
    THEN [exc |-> NoExc, ok |-> FALSE,
          st |-> [packages |-> pkgs, installed |-> <<>>, visiting |-> {}]]
    ELSE _install_recursive_stage3(reg,
             [packages |-> pkgs, installed |-> <<>>, visiting |-> {}], name, fv.version)

\* install(name, constraint) of stage 3: (success, installed) or the exception,
\* and self._packages after the call
install_stage3(reg, pkgs, name, constraint) ==
    IF name \notin DOMAIN reg
    THEN [exc |-> NoExc, ok |-> FALSE,
          st |-> [packages |-> pkgs, installed |-> <<>>, visiting |-> {}]]
    ELSE Stage3Install(reg, pkgs, name, _find_version(reg, name, constraint))

\* Registries where app's second dependency fails after the first was
\* installed: no version of pkg2 matches, pkg2 is not registered, and pkg1
\* depends on app
Stage3FailingRegistries ==
    { register_package(LockRegistryBase, App, <<V100>>,
                       Deps1(V100, << <<Pkg1, GE(V100)>>, <<Pkg2, EQ(V200)>> >>)),
      register_package(
          register_package(
              register_package(EmptyDict, Base, <<V100>>, EmptyDict),
              Pkg1, <<V100>>, Deps1(V100, << <<Base, GE(V100)>> >>)),
          App, <<V100>>, Deps1(V100, << <<Pkg1, GE(V100)>>, <<Pkg2, GE(V100)>> >>)),
      register_package(
          register_package(
              register_package(EmptyDict, Base, <<V100>>, EmptyDict),
              Pkg1, <<V100>>, Deps1(V100, << <<App, GE(V100)>> >>)),
          App, <<V100>>, Deps1(V100, << <<Base, GE(V100)>>, <<Pkg1, GE(V100)>> >>)) }

InitStage3 ==
    /\ registry \in LockRegistries \cup {RegistryPkg1Versions} \cup Stage3FailingRegistries
    /\ packages = EmptyDict
    /\ resolved_versions = EmptyDict
    /\ ret = Returned("init", <<>>, None, EmptyDict, NoOutcome)
    /\ cmp = NoCmp
    /\ sat = NoSat
    /\ lock = NoLock
    /\ ledger = NoLedger
    /\ threads = <<>>

InstallStage3 ==
    \E name \in Names, constraint \in InstallConstraints :
        \E r \in {install_stage3(registry, packages, name, constraint)} :
           /\ packages' = r.st.packages
           /\ ret' = Returned("install", name, constraint, packages,
                              Outcome(r.exc, r.ok, r.st.installed, <<>>, r.st.packages,
                                      resolved_versions, NoCollection, <<>>))
           /\ UNCHANGED <<registry, resolved_versions, cmp, sat, lock, ledger, threads>>

NextStage3 == InstallStage3

SpecStage3 == InitStage3 /\ [][NextStage3]_vars

(***************************************************************************)
(* Dependency version checker, stage 2: satisfies with "," and "||"        *)
(***************************************************************************)
\* constraint.split("||")
RECURSIVE SplitOr(_)
SplitOr(s) ==
    IF \A i \in 1..(Len(s) - 1) : ~(s[i] = "|" /\ s[i + 1] = "|") THEN <<s>>
    ELSE LET k == CHOOSE i \in 1..(Len(s) - 1) :
                      /\ s[i] = "|" /\ s[i + 1] = "|"
                      /\ \A j \in 1..(i - 1) : ~(s[j] = "|" /\ s[j + 1] = "|")
         IN <<SubSeq(s, 1, k - 1)>> \o SplitOr(SubSeq(s, k + 2, Len(s)))

NonEmpty(p) == p # <<>>

\* [p.strip() for p in or_part.split(",")] without the empty ones (if p)
AndParts(or_part) ==
    SelectSeq([i \in 1..Len(Split(or_part, ",")) |-> Strip(Split(or_part, ",")[i])],
              NonEmpty)

RECURSIVE AllSimple(_, _)
RECURSIVE AnyOrPart(_, _)

\* all(...) after satisfies_simple(version, and_parts[0]) gave r: it stops at
\* the first False, and an exception leaves it
AllSimpleThen(version, and_parts, r) ==
    IF r = "True" THEN AllSimple(version, Tail(and_parts)) ELSE r

\* all(satisfies_simple(version, p) for p in and_parts if p)
AllSimple(version, and_parts) ==
    IF Len(and_parts) = 0 THEN "True"
    ELSE AllSimpleThen(version, and_parts, satisfies_simple(version, and_parts[1]))

\* for or_part in or_parts: after all(...) of or_parts[0] gave r
OrPartThen(version, or_parts, r) ==
    IF r = "False" THEN AnyOrPart(version, Tail(or_parts)) ELSE r

\* for or_part in or_parts: if all(...): return True; return False
AnyOrPart(version, or_parts) ==
    IF Len(or_parts) = 0 THEN "False"
    ELSE OrPartThen(version, or_parts, AllSimple(version, AndParts(or_parts[1])))

\* satisfies(version, constraint) of stage 2: "True", "False" or "ValueError"
satisfies_stage2(version, constraint) == AnyOrPart(version, SplitOr(constraint))

\* The calls of satisfies: versions and targets written with three components
CompoundParts == {<<1, 0, 0>>, <<1, 5, 0>>, <<2, 0, 0>>}

CompoundOps == {<<>>, <<">", "=">>, <<"<">>, <<"=", "=">>}

CompoundTargets == {<<1, 0, 0>>, <<2, 0, 0>>}

\* str(n) of a number below ten
Numeral(n) == <<CHOOSE ch \in DigitChars : DigitVal(ch) = n>>

\* "1.5.0" of <<1, 5, 0>>
VersionText(parts) == Join([i \in 1..Len(parts) |-> Numeral(parts[i])])

SimpleConstraints == {[op |-> o, target |-> t] : o \in CompoundOps, t \in CompoundTargets}

MaxSimple == 2

MaxAlternatives == 2

\* An alternative is a list of simple constraints, a compound constraint a list
\* of alternatives
Alternatives == UNION {[1..n -> SimpleConstraints] : n \in 0..MaxSimple}

Compounds == UNION {[1..n -> Alternatives] : n \in 1..MaxAlternatives}

\* ">=2.0.0, <3.0.0": the simple constraints of an alternative with ", " between
RECURSIVE AlternativeText(_)
AlternativeText(alt) ==
    IF Len(alt) = 0 THEN <<>>
    ELSE IF Len(alt) = 1 THEN alt[1].op \o VersionText(alt[1].target)
    ELSE alt[1].op \o VersionText(alt[1].target) \o <<",", " ">> \o AlternativeText(Tail(alt))

\* "2.5.0 || >=3.0.0": the alternatives with " || " between
RECURSIVE CompoundText(_)
CompoundText(alts) ==
    IF Len(alts) = 1 THEN AlternativeText(alts[1])
    ELSE AlternativeText(alts[1]) \o <<" ", "|", "|", " ">> \o CompoundText(Tail(alts))

\* A call of satisfies: the version and the constraint as written and as text,
\* and once done what satisfies gave
CompoundOf(parts, alts) ==
    [parts |-> parts, version |-> VersionText(parts), alternatives |-> alts,
     constraint |-> CompoundText(alts), done |-> FALSE, result |-> ""]

InitSatisfies ==
    /\ registry = EmptyDict
    /\ packages = EmptyDict
    /\ resolved_versions = EmptyDict
    /\ ret = Returned("init", <<>>, None, EmptyDict, NoOutcome)
    /\ cmp = NoCmp
    /\ sat \in {CompoundOf(p, alts) : p \in CompoundParts, alts \in Compounds}
    /\ lock = NoLock
    /\ ledger = NoLedger
    /\ threads = <<>>

Satisfies ==
    /\ ~sat.done
    /\ sat' = [sat EXCEPT !.done = TRUE,
                          !.result = satisfies_stage2(sat.version, sat.constraint)]
    /\ UNCHANGED <<registry, packages, resolved_versions, ret, cmp, lock, ledger, threads>>

NextSatisfies == Satisfies

SpecSatisfies == InitSatisfies /\ [][NextSatisfies]_vars

(***************************************************************************)
(* Dependency version checker, stage 4: register_versions,                 *)
(* find_compatible_version, resolve.  _satisfies_simple of stage 4 is      *)
(* satisfies of stage 1, line for line.                                    *)
(***************************************************************************)
RECURSIVE AllSimple4(_, _)
RECURSIVE AnyOrPart4(_, _)

\* all(...) after _satisfies_simple(version, and_parts[0]) gave r
AllSimple4Then(version, and_parts, r) ==
    IF r = "True" THEN AllSimple4(version, Tail(and_parts)) ELSE r

\* all(_satisfies_simple(version, p) for p in and_parts if p)
AllSimple4(version, and_parts) ==
    IF Len(and_parts) = 0 THEN "True"
    ELSE AllSimple4Then(version, and_parts, satisfies(version, and_parts[1]))

\* for or_part in or_parts: after all(...) of or_parts[0] gave r
OrPart4Then(version, or_parts, r) ==
    IF r = "False" THEN AnyOrPart4(version, Tail(or_parts)) ELSE r

AnyOrPart4(version, or_parts) ==
    IF Len(or_parts) = 0 THEN "False"
    ELSE OrPart4Then(version, or_parts, AllSimple4(version, AndParts(or_parts[1])))

\* satisfies(version, constraint) of stage 4: "True", "False" or "ValueError"
satisfies_stage4(version, constraint) == AnyOrPart4(version, SplitOr(constraint))

\* The key parse_version(v) of sorted()
KeyOfVersion(v) == [i \in 1..Len(parse_version(v)) |-> IntPart(parse_version(v)[i])]

\* sorted() is stable: v goes behind the elements whose key is not greater
InsertByKey(sorted, v) ==
    LET k == Cardinality({i \in 1..Len(sorted) :
                             TupleCmp(KeyOfVersion(sorted[i]), KeyOfVersion(v)) <= 0})
    IN SubSeq(sorted, 1, k) \o <<v>> \o SubSeq(sorted, k + 1, Len(sorted))

\* sorted(versions, key=parse_version)
RECURSIVE SortedByKey(_)
SortedByKey(versions) ==
    IF Len(versions) = 0 THEN <<>>
    ELSE InsertByKey(SortedByKey(SubSeq(versions, 1, Len(versions) - 1)),
                     versions[Len(versions)])

\* self._registry[name] = sorted(versions, key=parse_version)
register_versions(reg, name, versions) == DictSet(reg, name, SortedByKey(versions))

\* for version in reversed(versions): from versions[i] downwards
RECURSIVE FindFrom(_, _, _)

\* ... after satisfies(versions[i], constraint) gave r
FindThen(versions, constraint, i, r) ==
    IF r = "True" THEN [exc |-> NoExc, version |-> versions[i]]
    ELSE IF r = "False" THEN FindFrom(versions, constraint, i - 1)
    ELSE [exc |-> r, version |-> None]

FindFrom(versions, constraint, i) ==
    IF i = 0 THEN [exc |-> NoExc, version |-> None]
    ELSE FindThen(versions, constraint, i, satisfies_stage4(versions[i], constraint))

\* find_compatible_version(name, constraint): the version or None, or the exception
find_compatible_version(reg, name, constraint) ==
    IF name \notin DOMAIN reg THEN [exc |-> NoExc, version |-> None]
    ELSE FindFrom(reg[name], constraint, Len(reg[name]))

\* for name, constraint in requirements.items(): from the i-th item on, with
\* resolved the items (name, version) found so far
RECURSIVE ResolveFrom(_, _, _, _)

ResolveThen(reg, requirements, i, resolved, f) ==
    IF f.exc # NoExc THEN [exc |-> f.exc, resolved |-> None]
    ELSE IF f.version = None THEN [exc |-> NoExc, resolved |-> None]
    ELSE ResolveFrom(reg, requirements, i + 1,
                     Append(resolved, <<requirements[i][1], f.version>>))

ResolveFrom(reg, requirements, i, resolved) ==
    IF i > Len(requirements) THEN [exc |-> NoExc, resolved |-> resolved]
    ELSE ResolveThen(reg, requirements, i, resolved,
             find_compatible_version(reg, requirements[i][1], requirements[i][2]))

\* resolve(requirements): requirements and the dict returned are lists of items
\* in insertion order; None when some requirement has no version
resolve(reg, requirements) == ResolveFrom(reg, requirements, 1, <<>>)

CheckerA == <<"a">>
CheckerB == <<"b">>

CheckerNames == {CheckerA, CheckerB}

\* The version lists registered, in any order
CheckerVersionLists ==
    {<<>>, <<VersionText(<<1, 0, 0>>)>>,
     <<VersionText(<<2, 0, 0>>), VersionText(<<1, 0, 0>>)>>,
     <<VersionText(<<1, 5, 0>>), VersionText(<<2, 0, 0>>), VersionText(<<1, 0, 0>>)>>}

\* The constraints of the calls: one simple constraint, or none, and the
\* compound ones ">=1.0.0, <2.0.0", "1.0.0 || 2.0.0", ">=2.0.0 || <1.0.0, >=1.0.0"
CheckerConstraints ==
    {alts \in Compounds : Len(alts) = 1 /\ Len(alts[1]) <= 1}
    \cup {<< <<[op |-> <<">", "=">>, target |-> <<1, 0, 0>>],
              [op |-> <<"<">>, target |-> <<2, 0, 0>>]>> >>,
          << <<[op |-> <<>>, target |-> <<1, 0, 0>>]>>,
             <<[op |-> <<>>, target |-> <<2, 0, 0>>]>> >>}

\* The constraints of the dicts with two requirements
CheckerPairConstraints ==
    {c \in CheckerConstraints :
        Len(c) = 1 /\ Len(c[1]) = 1 /\ c[1][1].op \in {<<">", "=">>, <<"=", "=">>}}

\* The requirements dicts of resolve: one or two names, in either order
CheckerRequirements ==
    {<<>>}
    \cup {<< <<n, c>> >> : n \in CheckerNames, c \in CheckerConstraints}
    \cup {<< <<q[1], q[3]>>, <<q[2], q[4]>> >> :
             q \in {x \in CheckerNames \X CheckerNames \X CheckerPairConstraints
                            \X CheckerPairConstraints : x[1] # x[2]}}

\* A call of the checker: the constraints as written, and what it gave
CheckerCall(op, name, reqs, exc, version, resolved) ==
    [op |-> op, name |-> name, requirements |-> reqs, exc |-> exc,
     version |-> version, resolved |-> resolved, done |-> TRUE]

\* requirements as the dict of texts the code is called with
RequirementsText(reqs) == [i \in 1..Len(reqs) |-> <<reqs[i][1], CompoundText(reqs[i][2])>>]

InitChecker ==
    /\ registry = EmptyDict
    /\ packages = EmptyDict
    /\ resolved_versions = EmptyDict
    /\ ret = Returned("init", <<>>, None, EmptyDict, NoOutcome)
    /\ cmp = NoCmp
    /\ sat = CheckerCall("init", <<>>, <<>>, NoExc, None, None)
    /\ lock = NoLock
    /\ ledger = NoLedger
    /\ threads = <<>>

CheckerRegister ==
    \E name \in CheckerNames, versions \in CheckerVersionLists :
        /\ registry' = register_versions(registry, name, versions)
        /\ sat' = CheckerCall("register_versions", name, <<>>, NoExc, None, None)
        /\ UNCHANGED <<packages, resolved_versions, ret, cmp, lock, ledger, threads>>

CheckerFind ==
    \E name \in CheckerNames, c \in CheckerConstraints :
        \E f \in {find_compatible_version(registry, name, CompoundText(c))} :
            /\ sat' = CheckerCall("find_compatible_version", name, << <<name, c>> >>,
                                  f.exc, f.version, None)
            /\ UNCHANGED <<registry, packages, resolved_versions, ret, cmp, lock, ledger, threads>>

CheckerResolve ==
    \E reqs \in CheckerRequirements :
        \E r \in {resolve(registry, RequirementsText(reqs))} :
            /\ sat' = CheckerCall("resolve", <<>>, reqs, r.exc, None, r.resolved)
            /\ UNCHANGED <<registry, packages, resolved_versions, ret, cmp, lock, ledger, threads>>

NextChecker == CheckerRegister \/ CheckerFind \/ CheckerResolve

SpecChecker == InitChecker /\ [][NextChecker]_vars

(***************************************************************************)
(* Dependency version checker, stage 3: install, detect_cycles.            *)
(* packages is self._installed: name -> the names pkg.dependencies has, in *)
(* the order of the dict                                                   *)
(***************************************************************************)
RECURSIVE _has_cycle(_, _, _)
RECURSIVE HasCycleDeps(_, _, _, _)

\* pkg = self._installed.get(name); pkg.dependencies when pkg, else nothing
InstalledDeps(installed, name) ==
    IF name \in DOMAIN installed THEN installed[name] ELSE <<>>

\* _has_cycle after its loop over the dependencies gave d: path.remove(name);
\* return False, unless the loop returned True
HasCycleLeave(name, d) ==
    IF d.found THEN d ELSE [d EXCEPT !.path = @ \ {name}]

\* Mutant of _has_cycle: visited is tested before path
HasCycleVisitedFirst(installed, st, name) ==
    IF name \in st.visited THEN [found |-> FALSE, path |-> st.path, visited |-> st.visited,
                                 calls |-> st.calls + 1]
    ELSE IF name \in st.path THEN [found |-> TRUE, path |-> st.path, visited |-> st.visited,
                                   calls |-> st.calls + 1]
    ELSE HasCycleLeave(name,
             HasCycleDeps(installed,
                          [found |-> FALSE, path |-> st.path \cup {name},
                           visited |-> st.visited \cup {name}, calls |-> st.calls + 1],
                          InstalledDeps(installed, name), 1))

\* _has_cycle(name, path, visited) with st = [path, visited, calls]: the value
\* returned (found), the two sets after the call and the number of calls made
_has_cycle(installed, st, name) ==
    IF name \in st.path THEN [found |-> TRUE, path |-> st.path, visited |-> st.visited,
                              calls |-> st.calls + 1]
    ELSE IF name \in st.visited THEN [found |-> FALSE, path |-> st.path,
                                      visited |-> st.visited, calls |-> st.calls + 1]
    ELSE HasCycleLeave(name,
             HasCycleDeps(installed,
                          [found |-> FALSE, path |-> st.path \cup {name},
                           visited |-> st.visited \cup {name}, calls |-> st.calls + 1],
                          InstalledDeps(installed, name), 1))

\* for dep in pkg.dependencies: ... after the call for deps[i] gave r
HasCycleNext(installed, deps, i, r) ==
    IF r.found THEN r ELSE HasCycleDeps(installed, r, deps, i + 1)

\* for dep in pkg.dependencies: if self._has_cycle(dep, path, visited): return True
HasCycleDeps(installed, st, deps, i) ==
    IF i > Len(deps) THEN st
    ELSE HasCycleNext(installed, deps, i, _has_cycle(installed, st, deps[i]))

\* detect_cycles(name)
detect_cycles(installed, name) ==
    _has_cycle(installed, [found |-> FALSE, path |-> {}, visited |-> {}, calls |-> 0], name)

CheckerC == <<"c">>
CheckerD == <<"d">>

\* The packages installed, and one that never is
GraphInstalled == {CheckerA, CheckerB, CheckerC}
GraphNames == GraphInstalled \cup {CheckerD}

MaxDependencies == 2

\* The dependencies dicts of install: their keys, in any order
DependencyLists ==
    {deps \in UNION {[1..n -> GraphNames] : n \in 0..MaxDependencies} :
        \A i, j \in 1..Len(deps) : i # j => deps[i] # deps[j]}

\* A call of the stage-3 checker and what it gave
GraphCall(op, name, found, calls) ==
    [op |-> op, name |-> name, found |-> found, calls |-> calls]

InitGraph ==
    /\ registry = EmptyDict
    /\ packages = EmptyDict
    /\ resolved_versions = EmptyDict
    /\ ret = Returned("init", <<>>, None, EmptyDict, NoOutcome)
    /\ cmp = NoCmp
    /\ sat = GraphCall("init", <<>>, FALSE, 0)
    /\ lock = NoLock
    /\ ledger = NoLedger
    /\ threads = <<>>

\* install(name, version, dependencies): self._installed[name] = Package(...)
GraphInstall ==
    \E name \in GraphInstalled, deps \in DependencyLists :
        /\ packages' = DictSet(packages, name, deps)
        /\ sat' = GraphCall("install", name, FALSE, 0)
        /\ UNCHANGED <<registry, resolved_versions, ret, cmp, lock, ledger, threads>>

DetectCycles ==
    \E name \in GraphNames :
        \E r \in {detect_cycles(packages, name)} :
            /\ sat' = GraphCall("detect_cycles", name, r.found, r.calls)
            /\ UNCHANGED <<registry, packages, resolved_versions, ret, cmp, lock, ledger, threads>>

NextGraph == GraphInstall \/ DetectCycles

SpecGraph == InitGraph /\ [][NextGraph]_vars

(***************************************************************************)
(* Properties                                                              *)
(***************************************************************************)
VersionsOf(name) == {registry[name].versions[i] : i \in 1..Len(registry[name].versions)}

\* version satisfies every constraint of the list reqs of (requirer, constraint)
SatisfiesAll(version, reqs) ==
    \A i \in 1..Len(reqs) : Matches(version, reqs[i][2]) = "True"

\* v is not above w in the order the registry sorts by
NotAbove(v, w) == TupleCmp(_version_tuple(v), _version_tuple(w)) \in {-1, 0}

Latest(name) == registry[name].versions[Len(registry[name].versions)]

\* The (dep_name, constraint) pairs that version declares
Declared(name, version) ==
    {DepsOf(registry, name, version)[i] : i \in 1..Len(DepsOf(registry, name, version))}

Installed(r) == r.op = "install" /\ r.exc = NoExc

Unsatisfiable(requirements) ==
    {requirements[i].pkg : i \in
        {j \in 1..Len(requirements) :
            \/ requirements[j].pkg \notin DOMAIN registry
            \/ \A v \in VersionsOf(requirements[j].pkg) :
                  ~SatisfiesAll(v, requirements[j].reqs)}}

ConflictPackages(conflicts) == {conflicts[i].package : i \in 1..Len(conflicts)}

\* C2: the conflict list of an install call has exactly one entry for every package
\* of the requirement set that no registered version satisfies, all of them in the
\* same call, and a non-empty conflict list comes with success False.
C2_AllConflictsReported ==
    Installed(ret) =>
        /\ ConflictPackages(ret.conflicts) = Unsatisfiable(ret.requirements)
        /\ Len(ret.conflicts) = Cardinality(Unsatisfiable(ret.requirements))
        /\ Len(ret.conflicts) > 0 => ~ret.success

\* Witness of C2: one call reports two conflicts, one of them for a registered
\* package whose versions all fail a constraint
C2_Witness ==
    /\ Installed(ret)
    /\ Len(ret.conflicts) >= 2
    /\ ~ret.success
    /\ \E i \in 1..Len(ret.conflicts) :
          /\ ret.conflicts[i].package \in DOMAIN registry
          /\ registry[ret.conflicts[i].package].versions # <<>>

\* The dependencies <<R, P, c>> read by the walk of the last install call: the
\* examined version of R declares (P, c)
ExaminedDeps ==
    UNION {{<<e[1], d[1], d[2]>> : d \in Declared(e[1], e[2])} : e \in ret.examined}

RequiredBy(conflict) == {conflict.required_by[i] : i \in 1..Len(conflict.required_by)}

\* C3: the Conflict for a package P lists (R, c) for every examined R whose
\* examined version declares the dependency (P, c) with a constraint c, also when
\* two requirers declare the same constraint string.
C3_ConflictNamesEveryRequirer ==
    Installed(ret) =>
        \A i \in 1..Len(ret.conflicts) :
            \A d \in ExaminedDeps :
                (d[2] = ret.conflicts[i].package /\ Truthy(d[3]))
                    => <<d[1], d[3]>> \in RequiredBy(ret.conflicts[i])

\* C4: an install call that returns conflicts returns success False and an empty
\* installed list, and leaves the installed map as it was before the call.
C4_ConflictInstallsNothing ==
    [][(Installed(ret') /\ Len(ret'.conflicts) > 0) =>
          /\ ~ret'.success
          /\ ret'.installed = <<>>
          /\ packages' = packages
    ]_vars

\* Witness of C4: a call on a manager that has packages installed returned
\* conflicts although some package of its requirement set did resolve
C4_Witness ==
    /\ Installed(ret)
    /\ Len(ret.conflicts) > 0
    /\ Len(ret.resolved) > 0
    /\ packages # EmptyDict
    /\ ret.installed = <<>>

\* a and b are registered and the latest version of each declares a dependency
\* on the other
Cycle(a, b) ==
    /\ a # b
    /\ a \in DOMAIN registry /\ b \in DOMAIN registry
    /\ registry[a].versions # <<>> /\ registry[b].versions # <<>>
    /\ \E d \in Declared(a, Latest(a)) : d[1] = b
    /\ \E d \in Declared(b, Latest(b)) : d[1] = a

\* The dependencies <<R, P, c>> that the versions of the registry declare
RegistryDeps ==
    UNION {UNION {{<<n, d[1], d[2]>> : d \in Declared(n, v)} : v \in VersionsOf(n)}
              : n \in DOMAIN registry}

\* Every edge carries a constraint that some registered version of its target
\* satisfies
EdgesSatisfiable ==
    \A d \in RegistryDeps :
        /\ Truthy(d[3])
        /\ d[2] \in DOMAIN registry
        /\ \E w \in VersionsOf(d[2]) : Matches(w, d[3]) = "True"

\* Every edge carries a constraint that every registered version of its target
\* satisfies, and the target has a version
EdgesAlwaysHold ==
    \A d \in RegistryDeps :
        /\ Truthy(d[3])
        /\ d[2] \in DOMAIN registry
        /\ VersionsOf(d[2]) # {}
        /\ \A w \in VersionsOf(d[2]) : Matches(w, d[3]) = "True"

CycleInstalled(b) ==
    /\ ret.exc = NoExc
    /\ ret.conflicts = <<>>
    /\ ret.success
    /\ ret.name \in DOMAIN packages
    /\ b \in DOMAIN packages

C6_CollectionTerminates ==
    ret.op = "install" => ret.exc # "RecursionError"

\* name is registered and none of its versions declares a dependency
NoDependencies(name) ==
    /\ name \in DOMAIN registry
    /\ \A v \in DOMAIN registry[name].dependencies : registry[name].dependencies[v] = <<>>

\* The registered versions of name that satisfy the constraint argument c
Admitted(name, c) ==
    IF Truthy(c) THEN {v \in VersionsOf(name) : Matches(v, c) = "True"}
    ELSE VersionsOf(name)

\* C7: on a manager with nothing installed, install(name, c) of a registered
\* package without dependencies installs name alone, at the highest registered
\* version satisfying c (any version, when c is absent), and installs nothing and
\* fails when no registered version satisfies c.
C7_InstallWithoutDependencies ==
    (ret.op = "install" /\ ret.fresh /\ NoDependencies(ret.name)) =>
        LET good == Admitted(ret.name, ret.constraint)
        IN /\ ret.exc = NoExc
           /\ good = {} => /\ ~ret.success
                           /\ ret.installed = <<>>
                           /\ packages = EmptyDict
           /\ good # {} => /\ ret.success
                           /\ DOMAIN packages = {ret.name}
                           /\ packages[ret.name] \in good
                           /\ \A w \in good : NotAbove(w, packages[ret.name])
                           /\ ret.installed =
                                 <<InstalledEntry(ret.name, packages[ret.name])>>

\* Witness of C7: a constraint made the call install a version below the latest
C7_Witness ==
    /\ ret.op = "install" /\ ret.fresh /\ NoDependencies(ret.name)
    /\ ret.constraint # None
    /\ ret.success
    /\ DOMAIN packages = {ret.name}
    /\ packages[ret.name] # Latest(ret.name)

\* C8: install of a root name that the registry does not have returns success
\* False with an empty installed list and an empty conflict list, and changes
\* neither the installed map nor the registry.
C8_UnknownRootFails ==
    [][(ret'.op = "install" /\ ret'.name \notin DOMAIN registry) =>
          /\ ret'.exc = NoExc
          /\ ~ret'.success
          /\ ret'.installed = <<>>
          /\ ret'.conflicts = <<>>
          /\ packages' = packages
          /\ registry' = registry
    ]_vars

\* Witness of C8: such a call has returned on a manager that has packages
\* registered and installed
C8_Witness ==
    /\ ret.op = "install"
    /\ ret.name \notin DOMAIN registry
    /\ ~ret.success
    /\ registry # EmptyDict
    /\ packages # EmptyDict

\* The packages that an examined version depends on and the registry does not have
AbsentDeps == {d[2] : d \in {e \in ExaminedDeps : e[2] \notin DOMAIN registry}}

\* C9: when an examined version depends on a package that the registry does not
\* have, the install call that returns gives success False, an empty installed
\* list and, in its conflict list, a Conflict entry for the absent package with
\* the requirers collected for it, and leaves the installed map as it was.
C9_AbsentDependencyIsConflict ==
    [][(Installed(ret') /\ AbsentDeps' # {}) =>
          /\ ~ret'.success
          /\ ret'.installed = <<>>
          /\ packages' = packages
          /\ \A P \in AbsentDeps' :
                \E i \in 1..Len(ret'.conflicts) :
                    ret'.conflicts[i] =
                        [package |-> P, required_by |-> ReqsFor(ret'.requirements, P)]
    ]_vars

\* Witness of C9: a call on a manager that has packages installed met an absent
\* dependency required with a constraint
C9_Witness ==
    /\ Installed(ret)
    /\ AbsentDeps # {}
    /\ packages # EmptyDict
    /\ \E i \in 1..Len(ret.conflicts) :
          /\ ret.conflicts[i].package \in AbsentDeps
          /\ ret.conflicts[i].required_by # <<>>

\* C9 as stated: the outcome for an absent dependency is not a version conflict
\* (no Conflict entry is made for the absent package), and nothing is installed.
C9_AbsentDependencyIsNotConflict ==
    (Installed(ret) /\ AbsentDeps # {}) =>
        /\ ~ret.success
        /\ ret.installed = <<>>
        /\ ConflictPackages(ret.conflicts) \cap AbsentDeps = {}

\* The number a component is written for
NumeralValue(n) ==
    CASE n = <<"0">> -> 0
      [] n = <<"2">> -> 2
      [] n = <<"1", "0">> -> 10

\* Component i of the list p right-padded with zeros
Component(p, i) == IF i <= Len(p) THEN NumeralValue(p[i]) ELSE 0

\* -1, 0, 1: the order of the lists p and q padded to the same length, decided
\* by the first component that differs
PaddedOrder(p, q) ==
    LET n == Max(Len(p), Len(q))
        diff == {i \in 1..n : Component(p, i) # Component(q, i)}
    IN IF diff = {} THEN 0
       ELSE LET k == CHOOSE i \in diff : \A j \in diff : i <= j
            IN IF Component(p, k) < Component(q, k) THEN -1 ELSE 1

\* C10: compare_versions is reflexive, antisymmetric and transitive, orders
\* versions by their numeric components after padding the shorter one with
\* zeros, and finds a version equal to itself with a zero component appended.
C10_CompareIsTotalOrder ==
    cmp.done =>
        /\ cmp.aa = 0
        /\ cmp.ab \in {-1, 0, 1}
        /\ cmp.ab = -cmp.ba
        /\ (cmp.ab <= 0 /\ cmp.bc <= 0) => cmp.ac <= 0
        /\ (cmp.ab <= 0 /\ cmp.bc <= 0 /\ cmp.ac = 0) => (cmp.ab = 0 /\ cmp.bc = 0)
        /\ cmp.ab = PaddedOrder(cmp.pa, cmp.pb)
        /\ cmp.az = 0

\* Witness of C10: 2 was found below 10.0, and 10.0 equal to 10
C10_Witness ==
    /\ cmp.done
    /\ cmp.pa = << <<"2">> >>
    /\ cmp.pb = << <<"1", "0">>, <<"0">> >>
    /\ cmp.pc = << <<"1", "0">> >>
    /\ cmp.ab = -1
    /\ cmp.bc = 0

\* The version strings all of whose components are numbers
NumericVersions == {Join(p) : p \in ComponentLists}

\* The components a numeric version string is written with
PartsOf(version) == CHOOSE p \in ComponentLists : Join(p) = version

NumericCall == sat.done /\ sat.version \in NumericVersions /\ sat.target \in NumericVersions

\* C11: for a valid version v the constraint "==" + v is satisfied by v, in
\* PackageManager._matches_constraint and in satisfies of the checker.
C11_ExactConstraintMatchesItself ==
    (NumericCall /\ sat.op = <<"=", "=">> /\ sat.target = sat.version) =>
        /\ sat.pm = "True"
        /\ sat.s1 = "True"

\* The operator's test on the order of the zero-padded component lists
PaddedTruth(op, v, t) ==
    CASE op \in {<<>>, <<"=", "=">>} -> PaddedOrder(PartsOf(v), PartsOf(t)) = 0
      [] op = <<">", "=">> -> PaddedOrder(PartsOf(v), PartsOf(t)) >= 0
      [] op = <<"<", "=">> -> PaddedOrder(PartsOf(v), PartsOf(t)) <= 0
      [] op = <<">">> -> PaddedOrder(PartsOf(v), PartsOf(t)) > 0
      [] op = <<"<">> -> PaddedOrder(PartsOf(v), PartsOf(t)) < 0

\* C12: _matches_constraint compares the version and the target after padding
\* the shorter one with zeros, so that "==2" matches 2.0 and ">2" does not.
C12_MatchingPadsWithZeros ==
    (NumericCall /\ sat.op \in {<<>>, <<"=", "=">>, <<">", "=">>, <<"<", "=">>, <<">">>, <<"<">>}) =>
        sat.pm = Bool(PaddedTruth(sat.op, sat.version, sat.target))

\* C13: for v and t with the same number of components, "~=" + t is satisfied
\* by v exactly when v >= t and their leading components are equal, in
\* _matches_constraint and in satisfies_simple of the checker's stage 2.
C13_CompatibleRelease ==
    (NumericCall /\ sat.op = <<"~", "=">>
        /\ Len(PartsOf(sat.version)) = Len(PartsOf(sat.target))) =>
        LET v == PartsOf(sat.version)
            t == PartsOf(sat.target)
            expected == Bool(PaddedOrder(v, t) >= 0 /\ NumeralValue(v[1]) = NumeralValue(t[1]))
        IN sat.pm = expected /\ sat.s2 = expected

\* Witness of C13: 2.10 satisfies "~=2.2"
C13_Witness ==
    /\ sat.done
    /\ sat.op = <<"~", "=">>
    /\ sat.version = <<"2", ".", "1", "0">>
    /\ sat.target = <<"2", ".", "2">>
    /\ sat.pm = "True"
    /\ sat.s2 = "True"

\* C14: a version text with a component that is no number makes constraint
\* matching end in an error, whichever side it is on; it is never compared.
C14_NonNumericVersionRejected ==
    (sat.done /\ (sat.version \notin NumericVersions \/ sat.target \notin NumericVersions)) =>
        sat.pm \notin {"True", "False"}

\* C15: the version list stored for every registered name is strictly ascending
\* in version order (so without duplicates), whatever list was registered.
C15_VersionsStrictlyAscending ==
    \A n \in DOMAIN registry :
        \A i \in 1..(Len(registry[n].versions) - 1) :
            TupleCmp(_version_tuple(registry[n].versions[i]),
                     _version_tuple(registry[n].versions[i + 1])) = -1

\* The names and the items of a lockfile
LockNames(lockfile) == {lockfile[i][1] : i \in 1..Len(lockfile)}
LockItems(lockfile) == {lockfile[i] : i \in 1..Len(lockfile)}

\* C16: a lockfile round trip loses nothing.  When generate_lockfile() of a
\* manager was given to install_from_lockfile of a second manager that has the
\* same registry and nothing installed, the second manager's installed map is
\* the first one's, and its generate_lockfile() is the same lockfile.
C16_LockfileRoundTrip ==
    lock.op = "restore" =>
        /\ lock.restored = packages
        /\ lock.relock = lock.lockfile

\* The round trip was made for three installed packages, one of them below
\* its latest registered version
C16_Witness ==
    /\ lock.op = "restore"
    /\ DOMAIN packages = {Base, Pkg1, Pkg2}
    /\ packages[Base] = V150
    /\ lock.restored = packages

\* C17: install_from_lockfile(L) restores verbatim.  After the call every
\* registered name of L is installed at the version L records, whatever was
\* installed under that name before and whatever the registry lists, and every
\* name that L does not mention is installed, or not, as it was before.
C17_LockfileRestoresVerbatim ==
    lock.op = "install_from_lockfile" =>
        \A n \in Names :
            /\ n \in LockNames(lock.lockfile) /\ n \in DOMAIN registry
                  => n \in DOMAIN packages /\ <<n, packages[n]>> \in LockItems(lock.lockfile)
            /\ n \notin LockNames(lock.lockfile)
                  => /\ n \in DOMAIN packages <=> n \in DOMAIN lock.before
                     /\ n \in DOMAIN packages => packages[n] = lock.before[n]

\* The lockfile replaced the installed base 2.0.0 by 1.0.0, a version that is
\* not the latest registered one, and left pkg1 as it was
C17_Witness ==
    /\ lock.op = "install_from_lockfile"
    /\ lock.lockfile = << <<Base, V100>> >>
    /\ Base \in DOMAIN lock.before /\ lock.before[Base] = V200
    /\ packages[Base] = V100
    /\ Pkg1 \in DOMAIN packages

\* C18: generate_lockfile() returns exactly the installed (name, version)
\* pairs, one entry for each installed package, in ascending order of the
\* package names; so it is determined by what is installed and not by the
\* order in which it was installed.
C18_LockfileSortedByName ==
    lock.op = "generate_lockfile" =>
        /\ LockItems(lock.lockfile) = {<<n, packages[n]>> : n \in DOMAIN packages}
        /\ Len(lock.lockfile) = Cardinality(DOMAIN packages)
        /\ \A i \in 1..(Len(lock.lockfile) - 1) :
               StrCmp(lock.lockfile[i][1], lock.lockfile[i + 1][1]) = -1

\* The lockfile of four packages that were installed in another order than
\* that of their names
C18_Witness ==
    /\ lock.op = "generate_lockfile"
    /\ Len(lock.lockfile) = 4
    /\ lock.keys # [i \in 1..4 |-> lock.lockfile[i][1]]

\* The str d occurs in the str s
Mentions(s, d) == \E i \in 1..(Len(s) - Len(d) + 1) : SubSeq(s, i, i + Len(d) - 1) = d

\* C19: stage-2 uninstall(name) of a package that an installed package
\* depends on fails and changes nothing: success is False and _packages is
\* what it was before the call, name with its version included.
C19_BlockedUninstallChangesNothing ==
    ledger.op = "uninstall"
        /\ Len(get_dependents(ledger.dependencies, ledger.before, ledger.name)) > 0
    => /\ ~ledger.success
       /\ ledger.packages = ledger.before

\* uninstall("base") was refused while base, pkg1 and pkg2 were installed
\* and both depend on base
C19_Witness ==
    /\ ledger.op = "uninstall" /\ ledger.name = Base
    /\ ~ledger.success
    /\ Has(ledger.packages, Base)
    /\ get_dependents(ledger.dependencies, ledger.packages, Base) = <<Pkg1, Pkg2>>

\* C20: the error of a blocked uninstall(name) names every blocking
\* dependent: each package of get_dependents(name) occurs in the message.
C20_ErrorNamesEveryDependent ==
    ledger.op = "uninstall" /\ ~ledger.success /\ Has(ledger.before, ledger.name)
    => \A i \in 1..Len(get_dependents(ledger.dependencies, ledger.before, ledger.name)) :
           Mentions(ledger.error,
                    get_dependents(ledger.dependencies, ledger.before, ledger.name)[i])

\* The installed (name, version) pairs of a stage-2 _packages
ItemsOf(pkgs) == {pkgs[i] : i \in 1..Len(pkgs)}

\* C21: stage-2 uninstall(name) succeeds exactly when name is installed and
\* no installed package depends on it, and a successful call removes the
\* entry of name and nothing else.
C21_UninstallRemovesOnlyName ==
    ledger.op = "uninstall" =>
        /\ ledger.success <=>
               /\ Has(ledger.before, ledger.name)
               /\ Len(get_dependents(ledger.dependencies, ledger.before, ledger.name)) = 0
        /\ ledger.success =>
               /\ ~Has(ledger.packages, ledger.name)
               /\ ItemsOf(ledger.packages) =
                      {item \in ItemsOf(ledger.before) : item[1] # ledger.name}

\* base, which had been installed as a dependency ("latest") of pkg1, was
\* removed after pkg1 was uninstalled, while another package stays installed
C21_Witness ==
    /\ ledger.op = "uninstall" /\ ledger.name = Base /\ ledger.success
    /\ <<Base, LatestVersion>> \in ItemsOf(ledger.before)
    /\ Pkg1 \in DOMAIN ledger.dependencies
    /\ Contains(ledger.dependencies[Pkg1], Base)
    /\ ~Has(ledger.packages, Pkg1)
    /\ Len(ledger.packages) > 0

\* The pairs <<n, m>> with a path of one or more edges of E from n to m, the
\* edges being pairs of names
Extend(E, P) == P \cup {<<x[1][1], x[2][2]>> : x \in {y \in P \X E : y[1][2] = y[2][1]}}

RECURSIVE PathsUpTo(_, _)
PathsUpTo(E, k) == IF k <= 1 THEN E ELSE Extend(E, PathsUpTo(E, k - 1))

Paths(E) == PathsUpTo(E, Cardinality(Names))

\* No package that is name or can be reached from name lies on a cycle of E
AcyclicFrom(E, name) ==
    \A n \in Names :
        (n = name \/ <<name, n>> \in Paths(E)) => <<n, n>> \notin Paths(E)

\* The edges of the stage-4 registry: <<R, P>> when some version of R
\* declares a dependency on P
RegistryEdges == {<<d[1], d[2]>> : d \in RegistryDeps}

\* The edges of the stage-2 _dependencies
LedgerEdges ==
    UNION {{<<n, ledger.dependencies[n][i]>> : i \in 1..Len(ledger.dependencies[n])}
              : n \in DOMAIN ledger.dependencies}

\* The version in an entry f"{name}=={version}"
VersionOf(entry) == Split(entry, "=")[3]

\* Stage 4: in the list returned, the dependencies that the installed version
\* of an entry declares stand before the entry, and the root stands last
OrderedStage4 ==
    /\ \A i, j \in 1..Len(ret.installed) :
          (\E d \in Declared(NameOf(ret.installed[i]), VersionOf(ret.installed[i])) :
               d[1] = NameOf(ret.installed[j]))
          => j < i
    /\ Len(ret.installed) > 0 => NameOf(ret.installed[Len(ret.installed)]) = ret.name

\* Stage 2: the same for the list of names returned
OrderedStage2 ==
    /\ \A i, j \in 1..Len(ledger.installed) :
          Contains(get_dependencies(ledger.dependencies, ledger.installed[i]),
                   ledger.installed[j])
          => j < i
    /\ Len(ledger.installed) > 0 => ledger.installed[Len(ledger.installed)] = ledger.name

C23_InstalledOnce ==
    [][/\ Installed(ret') =>
             /\ \A i, j \in 1..Len(ret'.installed) :
                   NameOf(ret'.installed[i]) = NameOf(ret'.installed[j]) => i = j
             /\ \A i \in 1..Len(ret'.installed) :
                   NameOf(ret'.installed[i]) \notin DOMAIN packages
       /\ ledger'.op = "install" =>
             /\ \A i, j \in 1..Len(ledger'.installed) :
                   ledger'.installed[i] = ledger'.installed[j] => i = j
             /\ \A i \in 1..Len(ledger'.installed) :
                   ~Has(ledger.packages, ledger'.installed[i])]_vars

\* Stage 2: with pkg1 and its dependency base installed, install("pkg2"),
\* which depends on base too, returned pkg2 alone
C23_Witness ==
    /\ ledger.op = "install" /\ ledger.name = Pkg2
    /\ ledger.installed = <<Pkg2>>
    /\ Has(ledger.before, Base) /\ Has(ledger.before, Pkg1)
    /\ Contains(get_dependencies(ledger.dependencies, Pkg2), Base)
    /\ Contains(get_dependencies(ledger.dependencies, Pkg1), Base)

\* C24: after a successful stage-4 install every (name, version) pair of the
\* resolved version map is installed at that version, also when the package
\* was installed at another version before, and the root is installed at a
\* version that satisfies the root constraint.
C24_ResolvedMapInstalled ==
    (Installed(ret) /\ ret.success) =>
        /\ \A k \in 1..Len(ret.resolved) :
              /\ ret.resolved[k][1] \in DOMAIN packages
              /\ packages[ret.resolved[k][1]] = ret.resolved[k][2]
        /\ ret.name \in DOMAIN packages
        /\ Truthy(ret.constraint) => Matches(packages[ret.name], ret.constraint) = "True"

\* What a call returned
ResultOf(call) ==
    [exc |-> call.exc, success |-> call.success, installed |-> call.installed,
     conflicts |-> call.conflicts]

\* The second of two calls made one after the other, o1 being what the first
\* gave: the two results and the final installed map are those of the state
SecondAgrees(a, b, o1, o2) ==
    /\ ResultOf(threads[a]) = [exc |-> o1.exc, success |-> o1.success,
                               installed |-> o1.installed, conflicts |-> o1.conflicts]
    /\ ResultOf(threads[b]) = [exc |-> o2.exc, success |-> o2.success,
                               installed |-> o2.installed, conflicts |-> o2.conflicts]
    /\ packages = o2.packages

FirstAgrees(a, b, o1) ==
    SecondAgrees(a, b, o1,
                 install(registry, o1.packages, o1.resolved_versions,
                         threads[b].name, threads[b].constraint, TRUE))

\* Call a and then call b, on the manager with nothing installed
Sequential(a, b) ==
    FirstAgrees(a, b, install(registry, EmptyDict, EmptyDict,
                              threads[a].name, threads[a].constraint, TRUE))

\* C25: two stage-4 install calls on one manager that are interleaved return
\* what they return, and install what they install, in one of the two orders
\* of making them one after the other, and each call installs the versions of
\* its own resolution.
C25_ConcurrentInstallsSerializable ==
    (threads # <<>> /\ \A t \in 1..2 : threads[t].pc = "done") =>
        /\ Sequential(1, 2) \/ Sequential(2, 1)
        /\ \A t \in 1..2 : \A i \in 1..Len(threads[t].installed) :
              /\ NameOf(threads[t].installed[i]) \in DOMAIN threads[t].own
              /\ threads[t].own[NameOf(threads[t].installed[i])]
                     = VersionOf(threads[t].installed[i])

\* C26: interleaved stage-2 calls.  uninstall(name) removes name only while
\* no installed package depends on it: the test for dependents and the
\* removal are one step with respect to the other calls.
C26_UninstallIsAtomic ==
    [][\A t \in DOMAIN threads :
          (threads[t].pc = "delete" /\ threads'[t].pc = "done" /\ threads'[t].success)
          => Len(get_dependents(ledger.dependencies, ledger.packages, threads[t].name)) = 0
      ]_vars

\* C27: the resolve_conflicts flag changes nothing.  From the state an
\* install call has left, a further install of the same root, with any
\* constraint of the model, returns the same tuple, leaves the same installed
\* map and stores the same resolution with resolve_conflicts True as with
\* False; a call that found conflicts left the state it started from, so
\* this compares the two calls also where the conflict list is not empty.
C27_ResolveConflictsFlagIsIgnored ==
    ret.op = "install" =>
        \A c \in InstallConstraints :
            install(registry, packages, resolved_versions, ret.name, c, TRUE)
                = install(registry, packages, resolved_versions, ret.name, c, FALSE)

\* An install with its flag at True returned a conflict for base, required by
\* two packages, and installed nothing
C27_Witness ==
    /\ Installed(ret) /\ ~ret.success /\ ret.constraint = None
    /\ \E i \in 1..Len(ret.conflicts) :
          ret.conflicts[i].package = Base /\ Len(ret.conflicts[i].required_by) = 2
    /\ install(registry, packages, resolved_versions, ret.name, None, TRUE).conflicts
           = ret.conflicts
    /\ install(registry, packages, resolved_versions, ret.name, None, FALSE).conflicts
           = ret.conflicts

\* The constraints collected for P by the last install call, and the versions
\* chosen for it
ReqsOf(P) ==
    {ret.requirements[i].reqs : i \in {j \in 1..Len(ret.requirements) :
                                          ret.requirements[j].pkg = P}}
ChosenFor(P) ==
    {ret.resolved[k][2] : k \in {j \in 1..Len(ret.resolved) : ret.resolved[j][1] = P}}

\* The registered versions of P that satisfy every constraint of reqs
GoodVersions(P, reqs) == {v \in VersionsOf(P) : SatisfiesAll(v, reqs)}

C29_Stage3DependenciesSatisfied ==
    (Installed(ret) /\ ret.success /\ ret.fresh) =>
        \A P \in DOMAIN packages : \A d \in Declared(P, packages[P]) :
            /\ d[1] \in DOMAIN packages
            /\ Truthy(d[2]) => Matches(packages[d[1]], d[2]) = "True"

\* p precedes q: at the first component that differs p has the smaller number
\* (p and q have the same number of components)
Precedes(p, q) ==
    \E k \in 1..Len(p) : p[k] < q[k] /\ \A j \in 1..(k - 1) : p[j] = q[j]

\* The simple constraint s holds of the version with the components p
SimpleTruth(s, p) ==
    CASE s.op \in {<<>>, <<"=", "=">>} -> p = s.target
      [] s.op = <<">", "=">> -> ~Precedes(p, s.target)
      [] s.op = <<"<">> -> Precedes(p, s.target)

\* Some alternative has every one of its simple constraints satisfied
SomeAlternativeHolds(alts, p) ==
    \E i \in 1..Len(alts) : \A j \in 1..Len(alts[i]) : SimpleTruth(alts[i][j], p)

\* C30: satisfies(v, C) of the checker's stage 2 is true if and only if at
\* least one "||"-separated alternative of C has every one of its
\* comma-separated simple constraints satisfied by v.
C30_CompoundConstraint ==
    sat.done => (sat.result = "True" <=> SomeAlternativeHolds(sat.alternatives, sat.parts))

\* The components of a version text of the checker calls
PartsOfText(v) == CHOOSE p \in CompoundParts : VersionText(p) = v

\* The registered versions of name that satisfy the constraint alts
Compatible(name, alts) ==
    IF name \notin DOMAIN registry THEN {}
    ELSE {registry[name][i] : i \in
             {j \in 1..Len(registry[name]) :
                 SomeAlternativeHolds(alts, PartsOfText(registry[name][j]))}}

\* v is the highest compatible version of name, or None when there is none
HighestCompatible(name, alts, v) ==
    IF Compatible(name, alts) = {} THEN v = None
    ELSE /\ v \in Compatible(name, alts)
         /\ \A w \in Compatible(name, alts) : ~Precedes(PartsOfText(v), PartsOfText(w))

\* C31: find_compatible_version(name, c) returns the highest registered version
\* of name that satisfies c, or None when there is none or name is not
\* registered; resolve(requirements) returns None exactly when some requirement
\* has no compatible version and otherwise maps every required name to its
\* highest compatible version.
C31_HighestCompatibleVersion ==
    /\ sat.op = "find_compatible_version" =>
           /\ sat.exc = NoExc
           /\ HighestCompatible(sat.name, sat.requirements[1][2], sat.version)
    /\ sat.op = "resolve" =>
           /\ sat.exc = NoExc
           /\ sat.resolved = None <=>
                  \E i \in 1..Len(sat.requirements) :
                      Compatible(sat.requirements[i][1], sat.requirements[i][2]) = {}
           /\ sat.resolved # None =>
                  /\ Len(sat.resolved) = Len(sat.requirements)
                  /\ \A i \in 1..Len(sat.requirements) :
                         /\ sat.resolved[i][1] = sat.requirements[i][1]
                         /\ HighestCompatible(sat.requirements[i][1],
                                              sat.requirements[i][2], sat.resolved[i][2])

\* The dependency edges of the installed packages
GraphEdges ==
    {e \in GraphNames \X GraphNames :
        e[1] \in DOMAIN packages /\ Contains(packages[e[1]], e[2])}

\* Some package that is name or that name reaches lies on a cycle
CycleReachable(name) ==
    \E x \in GraphNames :
        /\ x = name \/ <<name, x>> \in Paths(GraphEdges)
        /\ <<x, x>> \in Paths(GraphEdges)

\* C32: detect_cycles(name) terminates on every graph of installed packages
\* (it makes at most one call for name and one per dependency edge) and
\* returns True exactly when a dependency cycle among the installed packages
\* can be reached from name.
C32_DetectCyclesFindsReachableCycle ==
    sat.op = "detect_cycles" =>
        /\ sat.found <=> CycleReachable(sat.name)
        /\ sat.calls <= 1 + Cardinality(GraphEdges)

\* a -> b -> c -> b: the cycle does not pass through the name asked for
C32_Witness ==
    /\ sat.op = "detect_cycles"
    /\ sat.name = CheckerA
    /\ sat.found
    /\ <<CheckerA, CheckerA>> \notin Paths(GraphEdges)
    /\ Cardinality(DOMAIN packages) = 3

\* The highest registered version of name that satisfies every constraint of
\* the list, None when there is none
Implied(name, constraints) ==
    LET vs == registry[name].versions
        ok == {i \in 1..Len(vs) : AllMatch(vs[i], constraints) = "True"}
    IN IF ok = {} THEN None ELSE vs[CHOOSE i \in ok : \A j \in ok : j <= i]

\* C33: during the collection of stage 4 the version whose dependencies are
\* examined for a package is the highest registered version consistent with
\* all the constraints seen so far for that package, the one of the edge
\* being followed included.
C33_WalkUsesAllConstraintsSeen ==
    Installed(ret) =>
        \A e \in ret.examined : Implied(e[1], e[3]) \in {e[2], None}

\* C34: stage-4 consistency.  In every state reached by install calls on a
\* fixed registry, every dependency (D, c) that the registry declares for an
\* installed package at its installed version is installed, at a version
\* that satisfies c.
C34_InstalledDependenciesSatisfied ==
    \A P \in DOMAIN packages : \A d \in Declared(P, packages[P]) :
        /\ d[1] \in DOMAIN packages
        /\ Truthy(d[2]) => Matches(packages[d[1]], d[2]) = "True"

\* C35: a stage-4 install of a registered package whose version selection
\* finds no conflict returns success True: _install_ordered does not fail, so
\* no call fails after it has installed something.
C35_NoConflictInstallSucceeds ==
    (Installed(ret) /\ ret.name \in DOMAIN registry /\ ret.conflicts = <<>>) =>
        ret.success

\* C36: a stage-4 install fails only because of constraints that selected
\* versions declare: every (requirer, constraint) of a conflict entry whose
\* requirer has a selected version is declared by that selected version.
C36_ConflictsComeFromSelectedVersions ==
    Installed(ret) =>
        \A i \in 1..Len(ret.conflicts) : \A rc \in RequiredBy(ret.conflicts[i]) :
            \A v \in ChosenFor(rc[1]) :
                <<ret.conflicts[i].package, rc[2]>> \in Declared(rc[1], v)

\* C37: stage-2 dependency closure.  In every state reached by register_package,
\* install and uninstall calls, every dependency registered for an installed
\* package is installed.
C37_DependencyClosure ==
    \A i \in 1..Len(ledger.packages) :
        \A j \in 1..Len(get_dependencies(ledger.dependencies, ledger.packages[i][1])) :
            Has(ledger.packages,
                get_dependencies(ledger.dependencies, ledger.packages[i][1])[j])

\* C38: the stage-2 ledger can always be emptied.  In every reachable state
\* with an installed package, some installed package has no installed
\* dependent, itself included, so that uninstalling it succeeds.
C38_SomeUninstallSucceeds ==
    Len(ledger.packages) > 0 =>
        \E i \in 1..Len(ledger.packages) :
            Dependents(ledger.dependencies, ledger.packages, ledger.packages[i][1]) = <<>>

\* C39: stage-3 install is all-or-nothing.  A call that returns success False
\* leaves the installed-package map exactly as it was before the call.
C39_FailedInstallChangesNothing ==
    [][(Installed(ret') /\ ~ret'.success) => packages' = packages]_vars

\* What the last install_from_lockfile call returned
LockfileReturned ==
    install_from_lockfile(registry, [packages |-> lock.before, keys |-> <<>>],
                          lock.lockfile).ok

\* C40: install_from_lockfile returns True only if every entry of the lockfile
\* has been installed, an entry that names a package absent from the registry
\* included.
C40_LockfileSuccessMeansAllInstalled ==
    (lock.op = "install_from_lockfile" /\ LockfileReturned) =>
        \A e \in LockItems(lock.lockfile) :
            e[1] \in DOMAIN packages /\ packages[e[1]] = e[2]

====
